---- MODULE Spec2Model ----
(***************************************************************************)
(* A model of the insights-tracker extraction engine                      *)
(* (src/server/services/ai_engine.py, class AIInsightsEngine).            *)
(*                                                                         *)
(* Python strings are sequences of tokens (one token stands for one       *)
(* character or for one run of characters none of the string operations   *)
(* of the code looks into).  Python values read from JSON are tagged       *)
(* records.  The asyncio event loop is the variable running: a task runs   *)
(* from one await that suspends (a model call, a sleep) to the next, and   *)
(* no other task steps in between.                                         *)
(***************************************************************************)
EXTENDS Integers, Sequences, FiniteSets, TLC

VARIABLES
  available_endpoints,   \* self.available_endpoints
  model_endpoint,        \* self.model_endpoint
  llm_available,         \* self.llm_available
  consecutive_failures,  \* self.consecutive_failures
  cache,                 \* self._cache, in insertion order
  databricks_client,     \* self.databricks_client is not None
  use_mock,              \* os.getenv('USE_MOCK_LLM') is 'true'
  running,               \* the task the event loop is running, 0 when none
  pc,                    \* per task: where it stands
  q,                     \* per task: the frame of _query_databricks_model
  qret,                  \* per task: what the query returned
  an,                    \* per task: the frame of analyze_text
  out,                   \* per task: what the finished call gave its caller
  log,                   \* history: the model calls of the task's current query
  qsrc,                  \* history: where the query's return value came from
  snap,                  \* history: the engine as the query found it
  resident,              \* history: the contents endpoints gave, those evicted (FIFO) left out
  fn,                    \* the call of one helper on its own: name, argument, returns
  _schemas,              \* routers/schema.py: _schemas, template_id to template
  _sessions,             \* routers/insights.py: _sessions, session_id to session
  uuids,                 \* how many uuid4() values the routers have drawn
  now,                   \* datetime.now(), in ticks
  http                   \* history: the last request of the routers and its status code

engine == <<available_endpoints, model_endpoint, llm_available,
            consecutive_failures, cache, databricks_client, use_mock>>
hist == <<log, qsrc, snap, resident>>
vars == <<available_endpoints, model_endpoint, llm_available,
          consecutive_failures, cache, databricks_client, use_mock,
          running, pc, q, qret, an, out, log, qsrc, snap, resident, fn,
          _schemas, _sessions, uuids, now, http>>
routers == <<_schemas, _sessions, uuids, now, http>>

----------------------------------------------------------------------------
(* Bounds of the model and constants of the program *)

NumEndpoints == 2
NumGatewayEndpoints == 3
NumTasks == 2
MaxFailures == 5

cache_max_size == 2
max_consecutive_failures == 5
RetryRange == 3
RetryPause == 1
CycleRange == 2
CustomerMaxTokens == 500
CategoryMaxTokens == 1000

Tasks == 1..NumTasks

AllEndpoints ==
  <<"databricks-gemini-2-5-flash", "databricks-gemini-2-5-pro",
    "databricks-claude-3-7-sonnet", "databricks-meta-llama-3-1-8b-instruct",
    "databricks-meta-llama-3-3-70b-instruct", "endpoint-6", "endpoint-7">>

\* self.available_endpoints after __init__, cut to the first n
InitialEndpoints(n) == SubSeq(AllEndpoints, 1, n)

----------------------------------------------------------------------------
(* Python values *)

PyNone == [t |-> "none"]
PyStr(s) == [t |-> "str", s |-> s]
PyNum(n) == [t |-> "num", n |-> n]
PyList(a) == [t |-> "list", a |-> a]
PyDict(o) == [t |-> "dict", o |-> o]

IsStr(v) == v.t = "str"

\* Python truthiness of a value
Truthy(v) ==
  CASE v.t = "none" -> FALSE
    [] v.t = "str" -> v.s # <<>>
    [] v.t = "num" -> v.n # 0
    [] v.t = "list" -> v.a # <<>>
    [] v.t = "dict" -> v.o # <<>>

----------------------------------------------------------------------------
(* Strings: sequences of tokens *)

LB == "{"
RB == "}"
LS == "["
RS == "]"
QT == "\""
CM == ","
CL == ":"
SP == " "
NL == "\n"
\* three backquotes (a backquote cannot be written in a TLA+ string)
FENCE == "~~~"

\* the prompts: an f-string of the text and the category; what tells two
\* prompts apart is kept, and whether the word customer occurs in it
Prompt(kind, text, category, options, customer_word) ==
  [kind |-> kind, text |-> text, category |-> category, options |-> options,
   customer_word |-> customer_word]

NoPrompt == Prompt("", "", "", <<>>, FALSE)

\* a key of the prompt alone
CacheKeyOfPrompt(prompt, max_tokens) == [p |-> prompt, m |-> 0]

\* hashlib.md5(f"{prompt}_{max_tokens}".encode()).hexdigest(): max_tokens is
\* an int, so the f-string is one per pair; md5 is taken to be free of
\* collisions on the prompts of one process
CacheKey(prompt, max_tokens) == [p |-> prompt, m |-> max_tokens]

----------------------------------------------------------------------------
(* self._cache: a dict, which keeps insertion order *)

CacheHas(c, k) == \E i \in 1..Len(c) : c[i].key = k

CacheGet(c, k) == c[CHOOSE i \in 1..Len(c) : c[i].key = k].val

\* d[k] = v with a new key put in front of the others
DictSetFront(c, k, v) ==
  IF CacheHas(c, k)
    THEN [i \in 1..Len(c) |-> IF c[i].key = k THEN [key |-> k, val |-> v] ELSE c[i]]
    ELSE <<[key |-> k, val |-> v]>> \o c

\* d = {k: v}: the other keys are lost
DictSetAlone(c, k, v) == <<[key |-> k, val |-> v]>>

\* d[k] = v
DictSet(c, k, v) ==
  IF CacheHas(c, k)
    THEN [i \in 1..Len(c) |-> IF c[i].key = k THEN [key |-> k, val |-> v] ELSE c[i]]
    ELSE Append(c, [key |-> k, val |-> v])

\* the eviction with >= in the place of >
CacheStoreEager(c, k, v) ==
  LET c1 == DictSet(c, k, v)
  IN IF Len(c1) >= cache_max_size THEN Tail(c1) ELSE c1

\* the eviction of the entry stored last before this one
CacheStoreLifo(c, k, v) ==
  LET c1 == DictSet(c, k, v)
  IN IF Len(c1) > cache_max_size
       THEN SubSeq(c1, 1, Len(c1) - 2) \o <<c1[Len(c1)]>>
       ELSE c1

\* no store
CacheStoreNever(c, k, v) == c

\* self._cache[cache_key] = content, then the eviction of the oldest entry
CacheStore(c, k, v) ==
  LET c1 == DictSet(c, k, v)
  IN IF Len(c1) > cache_max_size THEN Tail(c1) ELSE c1

\* the reference the history keeps: first in, first out, a key fetched
\* again keeps its place
ResidentStore(r, k, v) ==
  LET r1 == IF \E i \in 1..Len(r) : r[i].key = k
              THEN [i \in 1..Len(r) |-> IF r[i].key = k THEN [key |-> k, val |-> v] ELSE r[i]]
              ELSE Append(r, [key |-> k, val |-> v])
  IN IF Len(r1) > cache_max_size THEN SubSeq(r1, 2, Len(r1)) ELSE r1

----------------------------------------------------------------------------
(* The mock responder *)

MockCustomer ==
  <<LB, QT, "customer_name", QT, CL, SP, QT, "ACME", SP, "Corp", QT, CM, SP,
    QT, "meeting_date", QT, CL, SP, QT, "2", "0", "2", "5", "-", "0", "1", "-", "1", "5", QT, RB>>
MockPredefined ==
  <<LB, QT, "values", QT, CL, SP, LS, QT, "Vector", SP, "Search", QT, RS, CM, SP,
    QT, "evidence", QT, CL, SP, LS, QT, "needs", SP, "Vector", SP, "Search", QT, RS, CM, SP,
    QT, "confidence", QT, CL, SP, "0.9", RB>>
MockInferred ==
  <<LB, QT, "values", QT, CL, SP, LS, QT, "product", SP, "catalog", SP, "search", QT, RS, CM, SP,
    QT, "evidence", QT, CL, SP, LS, QT, "for", SP, "their", SP, "product", SP, "catalog", QT, RS, CM, SP,
    QT, "confidence", QT, CL, SP, "0.8", RB>>

\* one response whatever the prompt
MockResponseFixed(prompt) == MockInferred

MockResponse(prompt) ==
  IF prompt.customer_word THEN MockCustomer
  ELSE IF prompt.kind = "predefined" THEN MockPredefined
  ELSE MockInferred

----------------------------------------------------------------------------
(* str methods, on sequences of tokens *)

IsSpace(c) == c \in {SP, NL}

\* s.count(c)
Count(s, c) == Cardinality({i \in 1..Len(s) : s[i] = c})

\* s.find(c), from 1; 0 when c is not in s (Python's -1)
Find(s, c) ==
  IF \E i \in 1..Len(s) : s[i] = c
    THEN CHOOSE i \in 1..Len(s) : s[i] = c /\ \A j \in 1..(i - 1) : s[j] # c
    ELSE 0

\* s.find(c, i)
FindFrom(s, c, i) ==
  IF \E j \in i..Len(s) : s[j] = c
    THEN CHOOSE j \in i..Len(s) : s[j] = c /\ \A k \in i..(j - 1) : s[k] # c
    ELSE 0

\* s.strip()
Strip(s) ==
  IF \A i \in 1..Len(s) : IsSpace(s[i]) THEN <<>>
  ELSE LET a == CHOOSE i \in 1..Len(s) :
                  ~IsSpace(s[i]) /\ \A j \in 1..(i - 1) : IsSpace(s[j])
           b == CHOOSE i \in 1..Len(s) :
                  ~IsSpace(s[i]) /\ \A j \in (i + 1)..Len(s) : IsSpace(s[j])
       IN SubSeq(s, a, b)

\* s.rstrip()
RStrip(s) ==
  IF \A i \in 1..Len(s) : IsSpace(s[i]) THEN <<>>
  ELSE LET b == CHOOSE i \in 1..Len(s) :
                  ~IsSpace(s[i]) /\ \A j \in (i + 1)..Len(s) : IsSpace(s[j])
       IN SubSeq(s, 1, b)

\* s.rstrip(',')
RStripComma(s) ==
  IF \A i \in 1..Len(s) : s[i] = CM THEN <<>>
  ELSE LET b == CHOOSE i \in 1..Len(s) :
                  s[i] # CM /\ \A j \in (i + 1)..Len(s) : s[j] = CM
       IN SubSeq(s, 1, b)

\* c * n
Repeat(c, n) == [i \in 1..n |-> c]

RECURSIVE Split(_, _)
\* s.split(c), c one token
Split(s, c) ==
  LET i == Find(s, c)
  IN IF i = 0 THEN <<s>>
     ELSE <<SubSeq(s, 1, i - 1)>> \o Split(SubSeq(s, i + 1, Len(s)), c)

RECURSIVE Join(_, _)
\* c.join(parts)
Join(parts, c) ==
  IF parts = <<>> THEN <<>>
  ELSE IF Len(parts) = 1 THEN parts[1]
  ELSE parts[1] \o <<c>> \o Join(Tail(parts), c)

\* the index of the first "```json" in s (the fence token, then the word json), 0 when none
FindFenceJson(s) ==
  IF \E i \in 1..(Len(s) - 1) : s[i] = FENCE /\ s[i + 1] = "json"
    THEN CHOOSE i \in 1..(Len(s) - 1) :
           /\ s[i] = FENCE /\ s[i + 1] = "json"
           /\ \A j \in 1..(i - 1) : ~(s[j] = FENCE /\ s[j + 1] = "json")
    ELSE 0

\* s.split('```json')[1].split('```')[0].strip()
FencedText(s) ==
  LET i == FindFenceJson(s)
      rest == SubSeq(s, i + 2, Len(s))
      j == Find(rest, FENCE)
  IN Strip(IF j = 0 THEN rest ELSE SubSeq(rest, 1, j - 1))

----------------------------------------------------------------------------
(* json.loads, on sequences of tokens.  The alphabet has no backslash and  *)
(* no true / false; a number is one token.                                  *)

\* the numbers of the alphabet, in tenths
NumberTokens == {"0.9", "0.8", "0.5", "0.0", "1.5", "-0.2", "123"}
NumberValue(tok) ==
  CASE tok = "0.9" -> 9 [] tok = "0.8" -> 8 [] tok = "0.5" -> 5 [] tok = "0.0" -> 0
    [] tok = "1.5" -> 15 [] tok = "-0.2" -> -2 [] tok = "123" -> 1230

JFail == [ok |-> FALSE, v |-> PyNone, pos |-> 0]
JOk(v, pos) == [ok |-> TRUE, v |-> v, pos |-> pos]

\* the first index from i on that holds no whitespace (Len(s) + 1 when none)
SkipSpace(s, i) ==
  IF \E j \in i..Len(s) : ~IsSpace(s[j])
    THEN CHOOSE j \in i..Len(s) : ~IsSpace(s[j]) /\ \A k \in i..(j - 1) : IsSpace(s[k])
    ELSE Len(s) + 1

\* a string literal opening at i: up to the next quote, no raw newline inside
JString(s, i) ==
  LET j == FindFrom(s, QT, i + 1)
  IN IF j = 0 THEN JFail
     ELSE IF \E k \in (i + 1)..(j - 1) : s[k] = NL THEN JFail
     ELSE JOk(PyStr(SubSeq(s, i + 1, j - 1)), j + 1)

RECURSIVE JValue(_, _)
RECURSIVE JElements(_, _, _)
RECURSIVE JMembers(_, _, _)

\* the value that starts at i (i holds no whitespace)
JValue(s, i) ==
  IF i > Len(s) THEN JFail
  ELSE IF s[i] = QT THEN JString(s, i)
  ELSE IF s[i] = LS THEN
    LET k == SkipSpace(s, i + 1)
    IN IF k <= Len(s) /\ s[k] = RS THEN JOk(PyList(<<>>), k + 1)
       ELSE JElements(s, k, <<>>)
  ELSE IF s[i] = LB THEN
    LET k == SkipSpace(s, i + 1)
    IN IF k <= Len(s) /\ s[k] = RB THEN JOk(PyDict(<<>>), k + 1)
       ELSE JMembers(s, k, <<>>)
  ELSE IF s[i] = "null" THEN JOk(PyNone, i + 1)
  ELSE IF s[i] \in NumberTokens THEN JOk(PyNum(NumberValue(s[i])), i + 1)
  ELSE JFail

\* the elements of an array from i on, acc those read so far
JElements(s, i, acc) ==
  LET r == JValue(s, i)
  IN IF ~r.ok THEN JFail
     ELSE LET k == SkipSpace(s, r.pos)
          IN IF k > Len(s) THEN JFail
             ELSE IF s[k] = CM THEN JElements(s, SkipSpace(s, k + 1), Append(acc, r.v))
             ELSE IF s[k] = RS THEN JOk(PyList(Append(acc, r.v)), k + 1)
             ELSE JFail

\* the members of an object from i on
JMembers(s, i, acc) ==
  IF i > Len(s) \/ s[i] # QT THEN JFail
  ELSE LET key == JString(s, i)
       IN IF ~key.ok THEN JFail
          ELSE LET c == SkipSpace(s, key.pos)
               IN IF c > Len(s) \/ s[c] # CL THEN JFail
                  ELSE LET r == JValue(s, SkipSpace(s, c + 1))
                       IN IF ~r.ok THEN JFail
                          ELSE LET k == SkipSpace(s, r.pos)
                                   got == Append(acc, [k |-> key.v.s, v |-> r.v])
                               IN IF k > Len(s) THEN JFail
                                  ELSE IF s[k] = CM THEN JMembers(s, SkipSpace(s, k + 1), got)
                                  ELSE IF s[k] = RB THEN JOk(PyDict(got), k + 1)
                                  ELSE JFail

\* json.loads(s): [ok, v]; not ok is JSONDecodeError
JsonLoads(s) ==
  LET r == JValue(s, SkipSpace(s, 1))
  IN IF r.ok /\ SkipSpace(s, r.pos) = Len(s) + 1
       THEN [ok |-> TRUE, v |-> r.v]
       ELSE [ok |-> FALSE, v |-> PyNone]

\* d.get(key, default): of a repeated key json.loads keeps the last value
DictHas(d, key) == \E i \in 1..Len(d.o) : d.o[i].k = key
DictGet(d, key, default) ==
  IF DictHas(d, key)
    THEN d.o[CHOOSE i \in 1..Len(d.o) :
               d.o[i].k = key /\ \A j \in (i + 1)..Len(d.o) : d.o[j].k # key].v
    ELSE default

----------------------------------------------------------------------------
(* The extraction of the JSON text from a response *)

\* brace_count after the characters a..i
Depth(s, a, i) == Count(SubSeq(s, a, i), LB) - Count(SubSeq(s, a, i), RB)

\* the index of the closing brace that brings brace_count back to 0, 0 when none
BalancedEnd(s, a) ==
  IF \E i \in a..Len(s) : s[i] = RB /\ Depth(s, a, i) = 0
    THEN CHOOSE i \in a..Len(s) :
           /\ s[i] = RB /\ Depth(s, a, i) = 0
           /\ \A j \in a..(i - 1) : ~(s[j] = RB /\ Depth(s, a, j) = 0)
    ELSE 0

\* one line of the fix of unterminated strings
FixLine(line0) ==
  LET line == Strip(line0)
  IN IF Count(line, QT) % 2 = 1
       THEN IF line # <<>> /\ line[Len(line)] = CM
              THEN SubSeq(line, 1, Len(line) - 1) \o <<QT>>
              ELSE line \o <<QT>>
       ELSE line0

PadWith(s, open, close) ==
  IF Count(s, open) > Count(s, close)
    THEN s \o Repeat(close, Count(s, open) - Count(s, close))
    ELSE s

\* the truncation fix of the category extractors, of response_text[start_idx:]
RepairTruncated(s) ==
  LET lines == Split(Strip(s), NL)
      fixed == [i \in 1..Len(lines) |-> FixLine(lines[i])]
      t == RStripComma(RStrip(Join(fixed, NL)))
  IN PadWith(PadWith(t, LS, RS), LB, RB)

\* the truncation fix of the customer extractor
RepairTruncatedCustomer(s) == PadWith(Strip(s), LB, RB)

\* json_text of _process_predefined_category and _process_inferred_category;
\* not ok is the ValueError raised when the response holds no brace
ExtractJsonText(response) ==
  IF FindFenceJson(response) # 0
    THEN [ok |-> TRUE, text |-> FencedText(response)]
  ELSE LET start == Find(response, LB)
           end == BalancedEnd(response, start)
       IN IF start = 0 THEN [ok |-> FALSE, text |-> <<>>]
          ELSE IF end = 0
            THEN [ok |-> TRUE,
                  text |-> RepairTruncated(SubSeq(response, start, Len(response)))]
          ELSE [ok |-> TRUE, text |-> Strip(SubSeq(response, start, end))]

\* json_text of _extract_customer_info
ExtractJsonTextCustomer(response) ==
  IF FindFenceJson(response) # 0
    THEN [ok |-> TRUE, text |-> FencedText(response)]
  ELSE LET start == Find(response, LB)
           end == BalancedEnd(response, start)
       IN IF start = 0 THEN [ok |-> FALSE, text |-> <<>>]
          ELSE IF end = 0
            THEN [ok |-> TRUE,
                  text |-> RepairTruncatedCustomer(SubSeq(response, start, Len(response)))]
          ELSE [ok |-> TRUE, text |-> Strip(SubSeq(response, start, end))]

----------------------------------------------------------------------------
(* CategoryResult and its construction from a response *)

NoEndpoint == "<None>"
ExtractionFailed == <<"LLM extraction failed - no response or parsing error">>

CategoryResult(name, values, confidence, evidence, model, error) ==
  [category_name |-> name, values |-> values, confidence |-> confidence,
   evidence_text |-> evidence, model_used |-> model, error |-> error]

\* the empty result without the error
FailureResultSilent(name) ==
  CategoryResult(name, <<>>, 0, <<>>, "none", PyNone)

\* the result of a keyword fallback in the place of the empty result
FailureResultFallback(name) ==
  CategoryResult(name, <<<<"keyword">>>>, 3, <<>>, "keyword_fallback", PyNone)

\* the CategoryResult after the try block: empty, with the error
FailureResult(name) ==
  CategoryResult(name, <<>>, 0, <<>>, "none", PyStr(ExtractionFailed))

\* pydantic, List[str]
IsListOfStr(v) == v.t = "list" /\ \A i \in 1..Len(v.a) : v.a[i].t = "str"

\* pydantic, float: a number, or a string that reads as one
IsFloat(v) ==
  \/ v.t = "num"
  \/ v.t = "str" /\ Len(v.s) = 1 /\ v.s[1] \in NumberTokens

\* a conversion that reads how often the helper has been applied
FloatOfCounting(v) ==
  (IF v.t = "num" THEN v.n ELSE NumberValue(v.s[1])) + Len(fn.ret)

FloatOf(v) == IF v.t = "num" THEN v.n ELSE NumberValue(v.s[1])

\* extracted_values after the check of line 830; not ok when len() or [0] raises
ExtractedValues(ev) ==
  IF ~Truthy(ev) THEN [ok |-> TRUE, v |-> PyList(<<>>)]
  ELSE IF ev.t = "list"
    THEN [ok |-> TRUE,
          v |-> IF Len(ev.a) = 1 /\ ~Truthy(ev.a[1]) THEN PyList(<<>>) ELSE ev]
  ELSE IF ev.t = "str" THEN [ok |-> TRUE, v |-> ev]
  ELSE IF ev.t = "dict" /\ Len(ev.o) # 1 THEN [ok |-> TRUE, v |-> ev]
  ELSE [ok |-> FALSE, v |-> PyNone]

\* the strings of a list of str
Strings(v) == [i \in 1..Len(v.a) |-> v.a[i].s]

\* the exceptions the try block of a category extractor can raise
ParseExceptions ==
  {"ValueError", "JSONDecodeError", "AttributeError", "TypeError", "ValidationError"}

\* the try block of a category extractor on a response that is not empty:
\* the exception it raises ("" when none) and the CategoryResult it returns
TryBlock(response, name, endpoint) ==
  IF Strip(response) = <<>> THEN [exc |-> "ValueError", result |-> FailureResult(name)]
  ELSE LET ex == ExtractJsonText(response)
           j == JsonLoads(ex.text)
       IN IF ~ex.ok THEN [exc |-> "ValueError", result |-> FailureResult(name)]
          ELSE IF ~j.ok THEN [exc |-> "JSONDecodeError", result |-> FailureResult(name)]
          ELSE IF j.v.t # "dict"
            THEN [exc |-> "AttributeError", result |-> FailureResult(name)]
          ELSE LET ev == ExtractedValues(DictGet(j.v, <<"values">>, PyList(<<>>)))
                   conf == DictGet(j.v, <<"confidence">>, PyNum(5))
                   evid == DictGet(j.v, <<"evidence">>, PyList(<<>>))
               IN IF ~ev.ok THEN [exc |-> "TypeError", result |-> FailureResult(name)]
                  ELSE IF /\ IsListOfStr(ev.v) /\ IsFloat(conf)
                          /\ IsListOfStr(evid) /\ endpoint # NoEndpoint
                    THEN [exc |-> "",
                          result |-> CategoryResult(name, Strings(ev.v), FloatOf(conf),
                                                    Strings(evid), endpoint, PyNone)]
                  ELSE [exc |-> "ValidationError", result |-> FailureResult(name)]

\* except clauses that take the JSON error only
ParseExceptJsonOnly(exc) ==
  IF exc = "JSONDecodeError" THEN "json" ELSE "uncaught"

\* the except clause of a category extractor that takes the exception:
\* except json.JSONDecodeError, then except Exception
ParseExcept(exc) ==
  IF exc = "JSONDecodeError" THEN "json"
  ELSE IF exc \in ParseExceptions THEN "exception"
  ELSE "uncaught"

\* the mark of an exception that left the extractor, in the place of its result
RaisedResult(name) == CategoryResult(name, <<>>, 0, <<>>, "<raised>", PyNone)
IsRaised(result) == result.model_used = "<raised>"

\* what the extractor returns after its try block gave tb
AfterTry(tb, name) ==
  IF tb.exc = "" THEN tb.result
  ELSE IF ParseExcept(tb.exc) = "uncaught" THEN RaisedResult(name)
  ELSE FailureResult(name)

\* the CategoryResult of one query-and-parse cycle, from the query's return value
ParseCategoryResponse(response, name, endpoint) ==
  IF ~Truthy(response) THEN FailureResult(name)
  ELSE AfterTry(TryBlock(response.s, name, endpoint), name)

\* what _extract_customer_info returns once it has a response
ParseCustomerResponse(response) ==
  LET ex == ExtractJsonTextCustomer(response)
      j == JsonLoads(ex.text)
  IN IF ~ex.ok \/ ~j.ok \/ j.v.t # "dict" THEN <<PyNone, PyNone>>
     ELSE <<DictGet(j.v, <<"customer_name">>, PyNone),
            DictGet(j.v, <<"meeting_date">>, PyNone)>>

----------------------------------------------------------------------------
(* _parse_and_format_date, on sequences of characters; a prefix word is    *)
(* one token.  No input of the model holds a month name, so the dateutil   *)
(* branch after the patterns is not taken and the function returns None.   *)

Digits == {"0", "1", "2", "3", "4", "5", "6", "7", "8", "9"}
AllDigits(s) == \A i \in 1..Len(s) : s[i] \in Digits

\* str.lower(), of the tokens that have upper-case letters
LowerToken(c) ==
  CASE c = "Date:" -> "date:" [] c = "On" -> "on" [] c = "Meeting" -> "meeting"
    [] OTHER -> c
Lower(s) == [i \in 1..Len(s) |-> LowerToken(s[i])]

\* the prefixes of the loop, lower-cased, in its order
DatePrefixes ==
  <<<<"date:">>, <<"meeting", SP, "date:">>, <<"on">>, <<"meeting", SP, "on">>>>

StartsWith(s, p) == Len(s) >= Len(p) /\ SubSeq(s, 1, Len(p)) = p

\* one turn of the loop: cleaned = cleaned[len(prefix):].strip()
StripPrefix(cleaned, p) ==
  IF StartsWith(Lower(cleaned), p)
    THEN Strip(SubSeq(cleaned, Len(p) + 1, Len(cleaned)))
    ELSE cleaned

\* s.zfill(w), s of digits
ZFillNot(s, w) == s

ZFill(s, w) == IF Len(s) < w THEN Repeat("0", w - Len(s)) \o s ELSE s

\* re.match of ^(\d{a})<sep>(\d{b})<sep>(\d{c})$ with a, b, c in the three sets
MatchDate(parts, first, second, third) ==
  /\ Len(parts) = 3
  /\ \A i \in 1..3 : AllDigits(parts[i])
  /\ Len(parts[1]) \in first /\ Len(parts[2]) \in second /\ Len(parts[3]) \in third

\* f"{year}-{month.zfill(2)}-{day.zfill(2)}"
IsoDate(year, month, day) == year \o <<"-">> \o ZFill(month, 2) \o <<"-">> \o ZFill(day, 2)

\* the four patterns in their order, on the parts of cleaned between the
\* slashes and between the dashes
FormatCleaned(bySlash, byDash) ==
  IF MatchDate(bySlash, {1, 2}, {1, 2}, {4})
    THEN PyStr(IsoDate(bySlash[3], bySlash[1], bySlash[2]))
  ELSE IF MatchDate(byDash, {1, 2}, {1, 2}, {4})
    THEN PyStr(IsoDate(byDash[3], byDash[1], byDash[2]))
  ELSE IF MatchDate(bySlash, {4}, {1, 2}, {1, 2})
    THEN PyStr(IsoDate(bySlash[1], bySlash[2], bySlash[3]))
  ELSE IF MatchDate(byDash, {4}, {1, 2}, {1, 2})
    THEN PyStr(IsoDate(byDash[1], byDash[2], byDash[3]))
  ELSE PyNone

\* cleaned after strip() and the loop over the prefixes
Cleaned(date_str) ==
  StripPrefix(StripPrefix(StripPrefix(StripPrefix(Strip(date_str),
    DatePrefixes[1]), DatePrefixes[2]), DatePrefixes[3]), DatePrefixes[4])

\* _parse_and_format_date(date_str)
ParseAndFormatDate(date_str) ==
  IF date_str = <<>> THEN PyNone
  ELSE FormatCleaned(Split(Cleaned(date_str), "/"), Split(Cleaned(date_str), "-"))

----------------------------------------------------------------------------
(* _query_databricks_model *)

NoQ == [prompt |-> NoPrompt, max_tokens |-> 0, idx |-> 0, endpoint |-> "", retry |-> 0]
NoSnap == [endpoints |-> <<>>, failures |-> 0, hit |-> FALSE, cache |-> <<>>,
           llm_available |-> FALSE]
NoError == [type |-> "", rate_limit |-> FALSE, upstream |-> FALSE]
NoLog == [calls |-> 0, sleeps |-> 0, tried |-> <<>>, only_rate_limited |-> TRUE,
          last |-> "", wait |-> 0, content |-> <<>>, error |-> NoError]

\* what the awaited model call can raise: asyncio.TimeoutError from wait_for,
\* or an exception of the SDK call, whose message (its first 200 characters)
\* may hold the rate-limit marker and the upstream / not-found marker
Errors ==
  [type : {"TimeoutError", "Exception"}, rate_limit : BOOLEAN, upstream : BOOLEAN]

\* except clauses that take the timeout and the rate limit only
ExceptClauseNarrow(e) ==
  IF e.type = "TimeoutError" THEN "timeout"
  ELSE IF e.type = "Exception" /\ e.rate_limit THEN "exception"
  ELSE "uncaught"

\* the except clause that takes the exception
ExceptClause(e) ==
  IF e.type = "TimeoutError" THEN "timeout"
  ELSE IF e.type = "Exception" THEN "exception"
  ELSE "uncaught"

\* the branches with an upstream error taken as a rate limit
ErrorClassUpstreamRetried(e) ==
  IF e.rate_limit \/ e.upstream THEN "rate_limit" ELSE "other"

\* the branches without the one of the upstream and not-found errors
ErrorClassUpstreamCounted(e) ==
  IF e.rate_limit THEN "rate_limit" ELSE "other"

\* the branch of the except Exception clause
ErrorClass(e) ==
  IF e.rate_limit THEN "rate_limit"
  ELSE IF e.upstream THEN "upstream"
  ELSE "other"

\* the same wait before every retry
WaitTimeFlat(retry) == 10

\* wait_time = (retry + 1) * 10
WaitTime(retry) == (retry + 1) * 10

\* the list without the swap
Unswapped(l, i) == l

\* the endpoint of index i copied to the front, the front not put at index i
Overwritten(l, i) == [j \in 1..Len(l) |-> IF j = 1 THEN l[i + 1] ELSE l[j]]

\* self.available_endpoints[0], self.available_endpoints[i] = (the two, swapped)
Swapped(l, i) ==
  [j \in 1..Len(l) |-> IF j = 1 THEN l[i + 1] ELSE IF j = i + 1 THEN l[1] ELSE l[j]]

\* the history entry of one more model call that raised e (NoError when it
\* returned a reply); of a timeout the history keeps the type only
Logged(l, endpoint, outcome, wait, content, e) ==
  [calls |-> l.calls + 1,
   sleeps |-> l.sleeps + (IF wait > 0 THEN 1 ELSE 0),
   tried |-> IF \E i \in 1..Len(l.tried) : l.tried[i] = endpoint
               THEN l.tried ELSE Append(l.tried, endpoint),
   only_rate_limited |-> l.only_rate_limited /\ outcome \in {"rate_limit", "content"},
   last |-> outcome,
   wait |-> wait,
   content |-> content,
   error |-> IF e.type = "TimeoutError"
               THEN [type |-> "TimeoutError", rate_limit |-> FALSE, upstream |-> FALSE]
               ELSE e]

\* return v
QReturn(t, v, src) ==
  /\ qret' = [qret EXCEPT ![t] = v]
  /\ qsrc' = [qsrc EXCEPT ![t] = src]
  /\ pc' = [pc EXCEPT ![t] = "q_done"]
  /\ running' = t
  /\ q' = q

\* the exception leaves the coroutine
QRaise(t) ==
  /\ qret' = [qret EXCEPT ![t] = PyNone]
  /\ qsrc' = [qsrc EXCEPT ![t] = "raised"]
  /\ pc' = [pc EXCEPT ![t] = "q_raised"]
  /\ running' = t
  /\ q' = q

\* the body of the two loops up to the await of the model call on the
\* endpoint at index i of the list as it is now
QCall(t, i) ==
  /\ q' = [q EXCEPT ![t].idx = i, ![t].endpoint = available_endpoints[i + 1],
                    ![t].retry = 0]
  /\ pc' = [pc EXCEPT ![t] = "q_wait"]
  /\ running' = 0
  /\ UNCHANGED <<qret, qsrc>>

\* the break that clears the flag after the first failure
QBreakEager(t, failures) ==
  IF q[t].idx + 1 < Len(available_endpoints)
    THEN /\ QCall(t, q[t].idx + 1)
         /\ llm_available' = llm_available
    ELSE /\ llm_available' = (IF failures >= 1 THEN FALSE ELSE llm_available)
         /\ QReturn(t, PyNone, "none")

\* break out of the retry loop: the next endpoint of the list, or the code
\* after the loop when the list is exhausted
QBreak(t, failures) ==
  IF q[t].idx + 1 < Len(available_endpoints)
    THEN /\ QCall(t, q[t].idx + 1)
         /\ llm_available' = llm_available
    ELSE /\ llm_available' =
              (IF failures >= max_consecutive_failures THEN FALSE ELSE llm_available)
         /\ QReturn(t, PyNone, "none")

\* from the call to the first await, or to the return when there is none
QueryEnter(t) ==
  /\ pc[t] = "q_enter"
  /\ running = t
  /\ LET key == CacheKey(q[t].prompt, q[t].max_tokens)
     IN /\ snap' = [snap EXCEPT ![t] =
                      [endpoints |-> available_endpoints,
                       failures |-> consecutive_failures,
                       hit |-> \E i \in 1..Len(resident) :
                                 resident[i].key = [p |-> q[t].prompt, m |-> q[t].max_tokens],
                       cache |-> cache,
                       llm_available |-> llm_available]]
        /\ log' = [log EXCEPT ![t] = NoLog]
        /\ IF use_mock
             THEN QReturn(t, PyStr(MockResponse(q[t].prompt)), "mock")
           ELSE IF ~databricks_client \/ available_endpoints = <<>>
             THEN QReturn(t, PyNone, "none")
           ELSE IF CacheHas(cache, key)
             THEN QReturn(t, PyStr(CacheGet(cache, key)), "cache")
           ELSE QCall(t, 0)
  /\ UNCHANGED <<engine, an, out, resident, fn, routers>>

\* the model call returns a reply whose first choice has content c
ReplyContent(t, c) ==
  /\ pc[t] = "q_wait"
  /\ running = 0
  /\ consecutive_failures' = 0
  /\ llm_available' = TRUE
  /\ available_endpoints' =
       (IF q[t].idx > 0 THEN Swapped(available_endpoints, q[t].idx)
        ELSE available_endpoints)
  /\ cache' = CacheStore(cache, CacheKey(q[t].prompt, q[t].max_tokens), c)
  /\ resident' = ResidentStore(resident, [p |-> q[t].prompt, m |-> q[t].max_tokens], c)
  /\ log' = [log EXCEPT ![t] = Logged(log[t], q[t].endpoint, "content", 0, c, NoError)]
  /\ QReturn(t, PyStr(c), "endpoint")
  /\ UNCHANGED <<model_endpoint, databricks_client, use_mock, an, out, snap, fn, routers>>

\* the reply has no choices
ReplyNoChoices(t) ==
  /\ pc[t] = "q_wait"
  /\ running = 0
  /\ log' = [log EXCEPT ![t] = Logged(log[t], q[t].endpoint, "no_choices", 0, <<>>, NoError)]
  /\ QBreak(t, consecutive_failures)
  /\ UNCHANGED <<available_endpoints, model_endpoint, consecutive_failures, cache,
                 databricks_client, use_mock, an, out, snap, resident, fn, routers>>

\* the call raises e (a first choice whose content is None raises TypeError
\* at content[:100], inside the try: an exception with neither marker)
ReplyError(t, e) ==
  /\ pc[t] = "q_wait"
  /\ running = 0
  /\ LET clause == ExceptClause(e)
         class == IF clause = "timeout" THEN "timeout" ELSE ErrorClass(e)
         counted == clause = "timeout" \/ class = "other"
         sleeping == clause = "exception" /\ class = "rate_limit"
                       /\ q[t].retry < RetryRange - 1
         failures == IF counted THEN consecutive_failures + 1 ELSE consecutive_failures
     IN /\ counted => consecutive_failures < MaxFailures
        /\ consecutive_failures' = (IF clause = "uncaught" THEN consecutive_failures ELSE failures)
        /\ log' = [log EXCEPT ![t] =
                     Logged(log[t], q[t].endpoint, class,
                            IF sleeping THEN WaitTime(q[t].retry) ELSE 0, <<>>, e)]
        /\ IF clause = "uncaught"
             THEN QRaise(t) /\ llm_available' = llm_available
           ELSE IF sleeping
             THEN /\ pc' = [pc EXCEPT ![t] = "q_sleep"]
                  /\ running' = 0
                  /\ UNCHANGED <<q, qret, qsrc, llm_available>>
           ELSE QBreak(t, failures)
  /\ UNCHANGED <<available_endpoints, model_endpoint, cache, databricks_client,
                 use_mock, an, out, snap, resident, fn, routers>>

\* asyncio.sleep(wait_time) is over: continue, the next try on the same endpoint
BackoffDone(t) ==
  /\ pc[t] = "q_sleep"
  /\ running = 0
  /\ q' = [q EXCEPT ![t].retry = q[t].retry + 1]
  /\ pc' = [pc EXCEPT ![t] = "q_wait"]
  /\ UNCHANGED <<engine, running, qret, an, out, hist, fn, routers>>

----------------------------------------------------------------------------
(* The inputs of the model: texts, categories, schemas, replies *)

\* a text: what the prompts and the regex fallback read of it
NoText == [id |-> "", word_count |-> 0, customer_word |-> FALSE,
           company |-> PyNone, date_str |-> PyNone]
TextAcme == [id |-> "acme", word_count |-> 11, customer_word |-> FALSE,
             company |-> PyStr(<<"Acme", SP, "Corp">>),
             date_str |-> PyStr(<<"3", "/", "1", "5", "/", "2", "0", "2", "4">>)]
TextBare == [id |-> "bare", word_count |-> 2, customer_word |-> TRUE,
             company |-> PyNone, date_str |-> PyNone]
Texts == {TextAcme, TextBare}

Category(name, value_type, possible_values) ==
  [name |-> name, value_type |-> value_type, possible_values |-> possible_values,
   customer_word |-> FALSE]

Product == Category("Product", "predefined", <<<<"A">>, <<"B">>>>)
Industry == Category("Industry", "inferred", <<>>)
ProductAgain == Category("Product", "inferred", <<>>)

Schemas == {<<Product, Industry>>, <<Product, ProductAgain>>, <<Industry>>, <<>>}

\* the calls of analyze_text the model makes
Call(text, schema, extract_customer_info, fast_mode) ==
  [text |-> text, schema |-> schema, extract_customer_info |-> extract_customer_info,
   fast_mode |-> fast_mode]
Calls ==
  {Call(TextAcme, <<Product, Industry>>, TRUE, FALSE),
   Call(TextBare, <<Product, ProductAgain>>, FALSE, TRUE),
   Call(TextBare, <<Industry>>, TRUE, TRUE),
   Call(TextAcme, <<>>, FALSE, FALSE)}

Field(name, value) == <<QT, name, QT, CL, SP>> \o value
Str(tokens) == <<QT>> \o tokens \o <<QT>>
List1(value) == <<LS>> \o value \o <<RS>>
Obj3(a, b, c) == <<LB>> \o a \o <<CM, SP>> \o b \o <<CM, SP>> \o c \o <<RB>>
Obj2(a, b) == <<LB>> \o a \o <<CM, SP>> \o b \o <<RB>>
Obj1(a) == <<LB>> \o a \o <<RB>>

ReplyA ==
  Obj3(Field("values", List1(Str(<<"A">>))), Field("evidence", List1(Str(<<"e">>))),
       Field("confidence", <<"0.9">>))
ReplyX ==
  Obj3(Field("values", List1(Str(<<"X">>))), Field("evidence", List1(Str(<<"e">>))),
       Field("confidence", <<"0.9">>))
ReplyNoValues ==
  Obj3(Field("values", <<LS, RS>>), Field("evidence", <<LS, RS>>),
       Field("confidence", <<"0.9">>))
ReplyEmptyString == Obj1(Field("values", List1(Str(<<>>))))
ReplyValuesNotList == Obj1(Field("values", Str(<<"A">>)))
ReplyProse == <<"I", SP, "cannot", SP, "help">>
ReplyBlank == <<>>
ReplyCustomer ==
  Obj2(Field("customer_name", Str(<<"Acme">>)),
       Field("meeting_date", Str(<<"3", "/", "1", "1", "/", "2", "0", "2", "5">>)))
ReplyCustomerList ==
  Obj2(Field("customer_name", List1(Str(<<"Acme">>))), Field("meeting_date", Str(<<>>)))

Replies ==
  {ReplyA, ReplyX, ReplyNoValues, ReplyEmptyString, ReplyValuesNotList, ReplyProse,
   ReplyBlank, ReplyCustomer, ReplyCustomerList}

\* the replies the model lets the endpoints give to a prompt
RepliesTo(prompt) ==
  IF prompt.kind = "customer" THEN {ReplyCustomer, ReplyCustomerList, ReplyProse}
  ELSE IF prompt.kind = "raw" THEN {ReplyA, ReplyBlank}
  ELSE {ReplyA, ReplyX, ReplyNoValues, ReplyEmptyString, ReplyProse}

----------------------------------------------------------------------------
(* analyze_text, _extract_customer_info, _process_category *)

NoResult == CategoryResult("", <<>>, 0, <<>>, "", PyNone)

NoAn ==
  [stage |-> "none", text |-> NoText, schema |-> <<>>,
   extract_customer_info |-> FALSE, fast_mode |-> FALSE,
   customer_name |-> PyNone, meeting_date |-> PyNone,
   i |-> 0, attempt |-> 0, result |-> NoResult, categories |-> <<>>,
   all_none |-> TRUE, customer_response |-> PyNone, cycles |-> <<>>,
   queries |-> <<>>]

NoOut == [kind |-> "none", value |-> PyNone, customer_name |-> PyNone,
          meeting_date |-> PyNone, categories |-> <<>>, word_count |-> 0,
          endpoint |-> "", failover |-> FALSE]
Raised == [NoOut EXCEPT !.kind = "raised"]

CustomerPrompt(text) == Prompt("customer", text.id, "", <<>>, TRUE)

\* the guidance _process_inferred_category picks by the category's name holds
\* the word customer for industry, use-case and company names
GuidanceHasCustomerWord(name) == name \in {"Industry", "Use Case", "Customer"}

\* the prompt of _process_predefined_category or _process_inferred_category
CategoryPrompt(text, category) ==
  Prompt(category.value_type, text.id, category.name, category.possible_values,
         \/ text.customer_word
         \/ category.customer_word
         \/ category.value_type = "inferred" /\ GuidanceHasCustomerWord(category.name))

\* a fallback that finds nothing
ExtractCustomerInfoFallbackNone(text) == <<PyNone, PyNone>>

\* the meeting_date of the fallback: the date string the first matching
\* pattern captured, formatted, or as it stands when the formatter gives None
FallbackDate(date_str) ==
  IF date_str = PyNone THEN PyNone
  ELSE IF Truthy(ParseAndFormatDate(date_str.s)) THEN ParseAndFormatDate(date_str.s)
  ELSE date_str

\* _extract_customer_info_fallback: the first company pattern and the first
\* date pattern that match the text
ExtractCustomerInfoFallback(text) == <<text.company, FallbackDate(text.date_str)>>

\* pydantic, Optional[str]
IsOptionalStr(v) == v.t \in {"none", "str"}

\* QuickAnalysisResult(...): the result, or pydantic's ValidationError
QuickAnalysisResult(customer_name, meeting_date, categories, word_count) ==
  IF IsOptionalStr(customer_name) /\ IsOptionalStr(meeting_date)
    THEN [NoOut EXCEPT !.kind = "returned", !.customer_name = customer_name,
                       !.meeting_date = meeting_date, !.categories = categories,
                       !.word_count = word_count]
    ELSE Raised

\* the call of _query_databricks_model(prompt, max_tokens)
StartQuery(t, prompt, max_tokens) ==
  /\ q' = [q EXCEPT ![t] = [prompt |-> prompt, max_tokens |-> max_tokens,
                            idx |-> 0, endpoint |-> "", retry |-> 0]]
  /\ pc' = [pc EXCEPT ![t] = "q_enter"]
  /\ running' = t

\* the exception leaves analyze_text
AnalyzeRaise(t) ==
  /\ out' = [out EXCEPT ![t] = Raised]
  /\ pc' = [pc EXCEPT ![t] = "done"]
  /\ running' = 0
  /\ UNCHANGED <<q, an>>

\* the frame of the query is gone once its caller has the return value
QueryTaken(t) ==
  /\ q' = [q EXCEPT ![t] = NoQ]
  /\ qret' = [qret EXCEPT ![t] = PyNone]
  /\ log' = [log EXCEPT ![t] = NoLog]
  /\ qsrc' = [qsrc EXCEPT ![t] = ""]
  /\ snap' = [snap EXCEPT ![t] = NoSnap]

\* analyze_text is called: up to the call of the customer query, or to the loop
AnalyzeText(t, text, schema, extract_customer_info, fast_mode) ==
  /\ pc[t] = "idle"
  /\ running = 0
  /\ an' = [an EXCEPT ![t] =
              [NoAn EXCEPT !.stage = IF extract_customer_info THEN "customer" ELSE "category",
                           !.text = text, !.schema = schema,
                           !.extract_customer_info = extract_customer_info,
                           !.fast_mode = fast_mode, !.i = 1,
                           !.queries = IF extract_customer_info THEN <<0>> ELSE <<>>]]
  /\ IF extract_customer_info
       THEN StartQuery(t, CustomerPrompt(text), CustomerMaxTokens)
       ELSE /\ pc' = [pc EXCEPT ![t] = "cat_loop"]
            /\ running' = t
            /\ q' = q
  /\ UNCHANGED <<engine, qret, out, hist, fn, routers>>

\* _extract_customer_info after its query
CustomerInfoDone(t) ==
  /\ pc[t] \in {"q_done", "q_raised"}
  /\ an[t].stage = "customer"
  /\ running = t
  /\ IF pc[t] = "q_raised" THEN AnalyzeRaise(t) /\ UNCHANGED <<qret, log, qsrc, snap>>
     ELSE LET pair == IF ~Truthy(qret[t])
                        THEN ExtractCustomerInfoFallback(an[t].text)
                        ELSE ParseCustomerResponse(qret[t].s)
          IN /\ an' = [an EXCEPT ![t].customer_name = pair[1],
                                 ![t].meeting_date = pair[2],
                                 ![t].stage = "category",
                                 ![t].all_none = qret[t] = PyNone,
                                 ![t].customer_response = qret[t]]
             /\ pc' = [pc EXCEPT ![t] = "cat_loop"]
             /\ QueryTaken(t)
             /\ UNCHANGED <<out, running>>
  /\ UNCHANGED <<engine, resident, fn, routers>>

\* the head of the loop over schema.categories: the next category's first
\* cycle, or the construction of the result after the last
CategoryLoop(t) ==
  /\ pc[t] = "cat_loop"
  /\ running = t
  /\ IF an[t].i <= Len(an[t].schema)
       THEN /\ an' = [an EXCEPT ![t].attempt = 0,
                                ![t].queries = Append(an[t].queries, an[t].i),
                                ![t].cycles = Append(an[t].cycles,
                                   [n |-> 0, served |-> "", first_empty |-> FALSE, paused |-> 0,
                                    first |-> PyNone, response |-> PyNone])]
            /\ StartQuery(t, CategoryPrompt(an[t].text, an[t].schema[an[t].i]),
                          CategoryMaxTokens)
            /\ out' = out
       ELSE /\ out' = [out EXCEPT ![t] =
                         QuickAnalysisResult(an[t].customer_name, an[t].meeting_date,
                                             an[t].categories, an[t].text.word_count)]
            /\ pc' = [pc EXCEPT ![t] = "done"]
            /\ running' = 0
            /\ UNCHANGED <<q, an>>
  /\ UNCHANGED <<engine, qret, hist, fn, routers>>

\* the loop goes on after a cycle that ended in the error only
RetriesOnError(result, attempt) ==
  /\ result.error # PyNone
  /\ attempt = 0
  /\ attempt + 1 < CycleRange

\* the loop goes on after the second cycle too
RetriesTwice(result, attempt) ==
  /\ ~(result.values # <<>> /\ Len(result.values) > 0)
  /\ attempt <= 1

\* the loop of _process_category goes on after this cycle
Retries(result, attempt) ==
  /\ ~(result.values # <<>> /\ Len(result.values) > 0)
  /\ attempt = 0
  /\ attempt + 1 < CycleRange

\* the loop over schema.categories skips every other category
EveryOtherCategory(i) == i + 2

\* for category in schema.categories: the index of the next iteration
NextCategory(i) == i + 1

\* the endpoint whose reply the query of task t returned, "" when none did
Served(t) == IF qsrc[t] = "endpoint" THEN q[t].endpoint ELSE ""

\* the history entry of the category's cycles after one more cycle
Cycled(c, result, response, served) ==
  [n |-> c.n + 1,
   served |-> served,
   first_empty |-> IF c.n = 0 THEN result.values = <<>> ELSE c.first_empty,
   paused |-> c.paused,
   first |-> IF c.n = 0 THEN response ELSE c.first,
   response |-> response]

\* the frame of analyze_text once the cycle has given result
Seen(a, result, response, served) ==
  [a EXCEPT !.result = result,
            !.cycles[a.i] = Cycled(a.cycles[a.i], result, response, served),
            !.all_none = a.all_none /\ response = PyNone]

\* _process_category with the result of one cycle: the break or the end of the
\* loop, then categories[name] = result; or the pause before the retry
CycleDone(t, category, result) ==
  IF IsRaised(result) THEN AnalyzeRaise(t) /\ UNCHANGED <<qret, log, qsrc, snap>>
  ELSE IF Retries(result, an[t].attempt)
    THEN /\ an' = [an EXCEPT ![t] = Seen(an[t], result, qret[t], Served(t))]
         /\ pc' = [pc EXCEPT ![t] = "cat_sleep"]
         /\ running' = 0
         /\ QueryTaken(t)
         /\ out' = out
    ELSE /\ an' = [an EXCEPT ![t] =
                     [Seen(an[t], result, qret[t], Served(t)) EXCEPT
                        !.categories = DictSet(an[t].categories, category.name, result),
                        !.i = NextCategory(an[t].i)]]
         /\ pc' = [pc EXCEPT ![t] = "cat_loop"]
         /\ QueryTaken(t)
         /\ UNCHANGED <<out, running>>

\* _process_category after the query of one cycle: the parse of the response
CategoryQueried(t) ==
  /\ pc[t] \in {"q_done", "q_raised"}
  /\ an[t].stage = "category"
  /\ running = t
  /\ IF pc[t] = "q_raised" THEN AnalyzeRaise(t) /\ UNCHANGED <<qret, log, qsrc, snap>>
     ELSE CycleDone(t, an[t].schema[an[t].i],
                    ParseCategoryResponse(qret[t], an[t].schema[an[t].i].name,
                                          model_endpoint))
  /\ UNCHANGED <<engine, resident, fn, routers>>

\* asyncio.sleep(1) is over: the second cycle
RetryPauseDone(t) ==
  /\ pc[t] = "cat_sleep"
  /\ running = 0
  /\ an' = [an EXCEPT ![t].attempt = an[t].attempt + 1,
                      ![t].queries = Append(an[t].queries, an[t].i),
                      ![t].cycles[an[t].i].paused = an[t].cycles[an[t].i].paused + RetryPause]
  /\ StartQuery(t, CategoryPrompt(an[t].text, an[t].schema[an[t].i]), CategoryMaxTokens)
  /\ UNCHANGED <<engine, qret, out, hist, fn, routers>>

----------------------------------------------------------------------------
(* The routers: the schema store of routers/schema.py and the session      *)
(* store of routers/insights.py.  A handler has no await that suspends (a  *)
(* coroutine without an await of its own returns before the event loop     *)
(* runs another task), so a handler is one step.                           *)

\* how many templates, and how many sessions, the requests create, and how
\* far the clock goes
MaxTemplates == 2
MaxSessions == 3
MaxClock == 3

\* str(uuid4()): the k-th value drawn, taken to differ from every other
Uuid(k) == CASE k = 1 -> "uuid-1" [] k = 2 -> "uuid-2" [] k = 3 -> "uuid-3"
             [] OTHER -> "uuid-4"
Uuids == {Uuid(k) : k \in 1..4}

\* the users of the requests: none, and one
UserIds == {PyNone, PyStr(<<"u1">>)}

\* d[k] = v and del d[k] of a dict held as a function
Put(d, k, v) == [x \in DOMAIN d \cup {k} |-> IF x = k THEN v ELSE d[x]]
Del(d, k) == [x \in DOMAIN d \ {k} |-> d[x]]

\* SchemaTemplate(...)
SchemaTemplate(template_id, template_name, categories, user_id, is_default, created_at, updated_at) ==
  [template_id |-> template_id, template_name |-> template_name,
   categories |-> categories, user_id |-> user_id, is_default |-> is_default,
   created_at |-> created_at, updated_at |-> updated_at]

DEFAULT_PRODUCT_FEEDBACK_SCHEMA ==
  SchemaTemplate("default_product_feedback", PyStr(<<"Product Feedback Template">>),
    <<Category("Product", "predefined",
               <<<<"Vector Search">>, <<"Embedding FT">>, <<"Keyword Search">>,
                 <<"MLflow">>, <<"Delta Lake">>, <<"Unity Catalog">>>>),
      Category("Industry", "inferred", <<>>),
      Category("Usage Pattern", "predefined",
               <<<<"Batch">>, <<"Real-Time">>, <<"Interactive">>, <<"Scheduled">>>>),
      Category("Use Case", "inferred", <<>>)>>,
    PyNone, TRUE, PyNum(0), PyNone)

\* name.strip() of the names of the model
StripName(name) == IF name = " " THEN "" ELSE name

\* the errors validate_schema_categories appends for categories[i]
CategoryErrors(categories, i) ==
  LET category == categories[i]
  IN (IF \E j \in 1..(i - 1) : categories[j].name = category.name
        THEN {"Duplicate category name"} ELSE {})
     \cup (IF StripName(category.name) = ""
             THEN {"Category name cannot be empty"} ELSE {})
     \cup (IF category.value_type = "predefined"
             THEN IF category.possible_values = <<>>
                    THEN {"Predefined categories must have at least one possible value"}
                  ELSE IF Cardinality({category.possible_values[j] :
                                         j \in 1..Len(category.possible_values)})
                            # Len(category.possible_values)
                    THEN {"Possible values must be unique"}
                  ELSE {}
             ELSE {})
     \cup (IF category.value_type = "inferred" /\ category.possible_values # <<>>
             THEN {"Inferred categories should not have predefined values"} ELSE {})

\* validate_schema_categories(categories).is_valid
validate_schema_categories(categories) ==
  /\ \A i \in 1..Len(categories) : CategoryErrors(categories, i) = {}
  /\ Len(categories) # 0

\* the categories of the requests: lists that pass the validation, and one
\* list for each of its errors
RequestCategories ==
  {<<Product>>,
   <<Product, Industry>>,
   <<Product, ProductAgain>>,
   <<Category(" ", "inferred", <<>>)>>,
   <<Category("Product", "predefined", <<>>)>>,
   <<Category("Product", "predefined", <<<<"A">>, <<"A">>>>)>>,
   <<Category("Industry", "inferred", <<<<"A">>>>)>>,
   <<>>}
TemplateNames == {PyStr(<<"N1">>), PyStr(<<"N2">>)}

\* the last request and its status code
Http(op, id, code) == [op |-> op, id |-> id, code |-> code]
NoHttp == Http("", "", 0)

\* POST /schema/templates.  The HTTPException of a failed validation is
\* raised inside the try block whose except Exception clause takes it, so
\* the handler goes on to store the template whatever
\* validate_schema_categories(categories) gave
create_schema_template(template_name, categories, user_id) ==
  /\ uuids < MaxTemplates
  /\ now < MaxClock
  /\ _schemas' = Put(_schemas, Uuid(uuids + 1),
                     SchemaTemplate(Uuid(uuids + 1), template_name, categories,
                                    user_id, FALSE, PyNum(now), PyNum(now)))
  /\ uuids' = uuids + 1
  /\ now' = now + 1
  /\ http' = Http("create_schema_template", Uuid(uuids + 1), 200)
  /\ UNCHANGED <<engine, running, pc, q, qret, an, out, hist, fn, _sessions>>

\* template.template_name = request.template_name: template is the object
\* the store holds, so the store has the new name at once
Renamed(store, template_id, template_name) ==
  IF template_name = PyNone THEN store
  ELSE [store EXCEPT ![template_id].template_name = template_name]

\* PUT /schema/templates/{template_id}; categories is PyNone or the list
update_schema_template(template_id, template_name, categories, user_id) ==
  /\ now < MaxClock
  /\ IF template_id \notin DOMAIN _schemas
       THEN /\ http' = Http("update_schema_template", template_id, 404)
            /\ UNCHANGED <<_schemas, now>>
     ELSE IF _schemas[template_id].is_default \/ _schemas[template_id].user_id # user_id
       THEN /\ http' = Http("update_schema_template", template_id, 403)
            /\ UNCHANGED <<_schemas, now>>
     ELSE IF categories # PyNone /\ ~validate_schema_categories(categories.a)
       THEN /\ http' = Http("update_schema_template", template_id, 400)
            /\ _schemas' = Renamed(_schemas, template_id, template_name)
            /\ now' = now
     ELSE /\ _schemas' =
               [Renamed(_schemas, template_id, template_name) EXCEPT
                  ![template_id].categories =
                     IF categories = PyNone THEN @ ELSE categories.a,
                  ![template_id].updated_at = PyNum(now)]
          /\ now' = now + 1
          /\ http' = Http("update_schema_template", template_id, 200)
  /\ UNCHANGED <<engine, running, pc, q, qret, an, out, hist, fn, _sessions, uuids>>

\* DELETE /schema/templates/{template_id}
delete_schema_template(template_id, user_id) ==
  /\ IF template_id \notin DOMAIN _schemas
       THEN http' = Http("delete_schema_template", template_id, 404) /\ _schemas' = _schemas
     ELSE IF _schemas[template_id].is_default \/ _schemas[template_id].user_id # user_id
       THEN http' = Http("delete_schema_template", template_id, 403) /\ _schemas' = _schemas
     ELSE /\ _schemas' = Del(_schemas, template_id)
          /\ http' = Http("delete_schema_template", template_id, 200)
  /\ UNCHANGED <<engine, running, pc, q, qret, an, out, hist, fn, _sessions, uuids, now>>

\* AnalysisSession(...): the fields the handlers write
AnalysisSession(session_id, user_id, status, total_documents) ==
  [session_id |-> session_id, user_id |-> user_id, status |-> status,
   total_documents |-> total_documents, processed_documents |-> 0]

\* a start that looks at no status
NeverStarted(session) == FALSE

\* if session.status != 'created' of start_analysis_session
AlreadyStarted(session) == session.status # "created"

\* POST /insights/sessions
create_analysis_session(user_id, documents) ==
  /\ uuids < MaxSessions
  /\ _sessions' = Put(_sessions, Uuid(uuids + 1),
                      AnalysisSession(Uuid(uuids + 1), user_id, "created", documents))
  /\ uuids' = uuids + 1
  /\ http' = Http("create_analysis_session", Uuid(uuids + 1), 200)
  /\ UNCHANGED <<engine, running, pc, q, qret, an, out, hist, fn, _schemas, now>>

\* POST /insights/sessions/{session_id}/start
start_analysis_session(session_id) ==
  /\ IF session_id \notin DOMAIN _sessions
       THEN http' = Http("start_analysis_session", session_id, 404) /\ _sessions' = _sessions
     ELSE IF AlreadyStarted(_sessions[session_id])
       THEN http' = Http("start_analysis_session", session_id, 400) /\ _sessions' = _sessions
     ELSE /\ _sessions' = [_sessions EXCEPT ![session_id].status = "running"]
          /\ http' = Http("start_analysis_session", session_id, 200)
  /\ UNCHANGED <<engine, running, pc, q, qret, an, out, hist, fn, _schemas, uuids, now>>

\* DELETE /insights/sessions/{session_id}
delete_analysis_session(session_id) ==
  /\ IF session_id \notin DOMAIN _sessions
       THEN http' = Http("delete_analysis_session", session_id, 404) /\ _sessions' = _sessions
     ELSE /\ _sessions' = Del(_sessions, session_id)
          /\ http' = Http("delete_analysis_session", session_id, 200)
  /\ UNCHANGED <<engine, running, pc, q, qret, an, out, hist, fn, _schemas, uuids, now>>

\* the stores when the modules are imported
InitRouters ==
  /\ _schemas = [id \in {"default_product_feedback"} |-> DEFAULT_PRODUCT_FEEDBACK_SCHEMA]
  /\ _sessions = [id \in {} |-> id]
  /\ uuids = 0
  /\ now = 1
  /\ http = NoHttp

----------------------------------------------------------------------------
(* The specification: one engine, one call of analyze_text *)

\* AIInsightsEngine.__init__, with the first n endpoints of its list
InitEngine(n) ==
  /\ cache = <<>>
  /\ consecutive_failures = 0
  /\ use_mock \in BOOLEAN
  /\ \/ /\ databricks_client = TRUE
        /\ available_endpoints = InitialEndpoints(n)
        /\ model_endpoint = InitialEndpoints(n)[1]
        /\ llm_available = TRUE
     \/ /\ databricks_client = FALSE
        /\ available_endpoints = <<>>
        /\ model_endpoint = NoEndpoint
        /\ llm_available = FALSE

InitTasks ==
  /\ running = 0
  /\ pc = [t \in Tasks |-> "idle"]
  /\ q = [t \in Tasks |-> NoQ]
  /\ qret = [t \in Tasks |-> PyNone]
  /\ an = [t \in Tasks |-> NoAn]
  /\ out = [t \in Tasks |-> NoOut]
  /\ log = [t \in Tasks |-> NoLog]
  /\ qsrc = [t \in Tasks |-> ""]
  /\ snap = [t \in Tasks |-> NoSnap]
  /\ resident = <<>>

\* no helper is called on its own
NoFn == [f |-> "", arg |-> <<>>, src |-> <<>>, ret |-> <<>>]

Init == InitEngine(NumEndpoints) /\ InitTasks /\ fn = NoFn /\ InitRouters

Gateway(t) ==
  \/ QueryEnter(t)
  \/ \E c \in RepliesTo(q[t].prompt) : ReplyContent(t, c)
  \/ ReplyNoChoices(t)
  \/ \E e \in Errors : ReplyError(t, e)
  \/ BackoffDone(t)

Next ==
  \/ \E c \in Calls :
       AnalyzeText(1, c.text, c.schema, c.extract_customer_info, c.fast_mode)
  \/ CustomerInfoDone(1)
  \/ CategoryLoop(1)
  \/ CategoryQueried(1)
  \/ RetryPauseDone(1)
  \/ Gateway(1)

Spec == Init /\ [][Next]_vars

\* the steps of the call once it is made: the event loop runs a task that is
\* ready, a model call returns, fails or times out, and a sleep ends
Step(t) ==
  \/ CustomerInfoDone(t)
  \/ CategoryLoop(t)
  \/ CategoryQueried(t)
  \/ RetryPauseDone(t)
  \/ Gateway(t)

\* the calls of the specification of termination: the schemas of one
\* category or none
ShortCalls == {c \in Calls : Len(c.schema) <= 1}

NextFair ==
  \/ \E c \in ShortCalls :
       AnalyzeText(1, c.text, c.schema, c.extract_customer_info, c.fast_mode)
  \/ Step(1)

\* Step(t) is enabled: the call is made and has not come to its end
Ready(t) == pc[t] \notin {"idle", "done"}

\* weak fairness of the steps of task t, WF_vars(Step(t)), with ENABLED
\* written out as Ready(t)
Fair(t) == ([]<>~Ready(t)) \/ ([]<><<Step(t)>>_vars)

SpecFair == Init /\ [][NextFair]_vars /\ Fair(1)

----------------------------------------------------------------------------
(* The specification of the gateway alone: queries one after the other *)

RawPrompts == {Prompt("raw", "p1", "", <<>>, FALSE), Prompt("raw", "p2", "", <<>>, TRUE)}
RawMaxTokens == {CustomerMaxTokens, CategoryMaxTokens}
RawQueries ==
  {<<p, m>> : p \in RawPrompts, m \in RawMaxTokens} \ {<<Prompt("raw", "p2", "", <<>>, TRUE), CategoryMaxTokens>>}

\* the query got its content from the third endpoint it tried, after nothing
\* but rate-limit errors from the first two
FailedOver(l, src) ==
  src = "endpoint" /\ l.only_rate_limited /\ Len(l.tried) = 3 /\ l.calls = 2 * RetryRange + 1

\* a caller calls _query_databricks_model(prompt, max_tokens)
RawQuery(t, prompt, max_tokens) ==
  /\ pc[t] = "idle"
  /\ running = 0
  /\ StartQuery(t, prompt, max_tokens)
  /\ UNCHANGED <<engine, qret, an, out, hist, fn, routers>>

\* the caller has the return value (or the exception); the history keeps
\* whether the query failed over, and to which endpoint
RawReturn(t) ==
  /\ pc[t] \in {"q_done", "q_raised"}
  /\ an[t].stage = "none"
  /\ running = t
  /\ out' = [out EXCEPT ![t] =
               [NoOut EXCEPT !.kind = IF pc[t] = "q_done" THEN "returned" ELSE "raised",
                             !.endpoint = IF FailedOver(log[t], qsrc[t])
                                            THEN q[t].endpoint ELSE "",
                             !.failover = FailedOver(log[t], qsrc[t])]]
  /\ pc' = [pc EXCEPT ![t] = "idle"]
  /\ running' = 0
  /\ QueryTaken(t)
  /\ UNCHANGED <<engine, an, resident, fn, routers>>

InitQuery == InitEngine(NumGatewayEndpoints) /\ InitTasks /\ fn = NoFn /\ InitRouters

NextQuery ==
  \/ \E pm \in RawQueries : RawQuery(1, pm[1], pm[2])
  \/ RawReturn(1)
  \/ Gateway(1)

SpecQuery == InitQuery /\ [][NextQuery]_vars

----------------------------------------------------------------------------
(* The specification of concurrent queries: each task of the event loop    *)
(* calls the gateway of the one engine once, and the tasks interleave at   *)
(* the awaits of the model call and of the backoff sleep                   *)

\* a task that has made no query yet calls _query_databricks_model
ConcurrentQuery(t, prompt, max_tokens) ==
  /\ out[t].kind = "none"
  /\ RawQuery(t, prompt, max_tokens)

InitConcurrent == InitEngine(NumEndpoints) /\ InitTasks /\ fn = NoFn /\ InitRouters

NextConcurrent ==
  \E t \in Tasks :
    \/ \E p \in RawPrompts : ConcurrentQuery(t, p, CustomerMaxTokens)
    \/ RawReturn(t)
    \/ Gateway(t)

SpecConcurrent == InitConcurrent /\ [][NextConcurrent]_vars

\* the same with the longer list of endpoints, where a swap leaves an
\* endpoint where it was
SpecConcurrentGateway == InitQuery /\ [][NextConcurrent]_vars

----------------------------------------------------------------------------
(* The specification of _parse_and_format_date on its own: the function is *)
(* applied to a date string, then to what it returned                      *)

\* how many times a helper is applied in the specifications of the helpers
MaxApply == 2

\* the month and day strings of the model, of one or two digits, and the years
ShortNumbers ==
  {<<a>> : a \in {"0", "1", "3"}} \cup {<<a, b>> : a, b \in {"0", "1", "3"}}
Years == {<<"2", "0", "2", "5">>, <<"0", "0", "0", "1">>}
DateForms == {"M/D/Y", "M-D-Y", "Y/M/D", "Y-M-D"}

\* the date string of a form, and the same after the prefix "Date: "
DateString(form, m, d, y) ==
  CASE form = "M/D/Y" -> m \o <<"/">> \o d \o <<"/">> \o y
    [] form = "M-D-Y" -> m \o <<"-">> \o d \o <<"-">> \o y
    [] form = "Y/M/D" -> y \o <<"/">> \o m \o <<"/">> \o d
    [] form = "Y-M-D" -> y \o <<"-">> \o m \o <<"-">> \o d
DateCall(form, m, d, y, prefixed) ==
  [f |-> "date",
   arg |-> (IF prefixed THEN <<"Date:", SP>> ELSE <<>>) \o DateString(form, m, d, y),
   src |-> [form |-> form, m |-> m, d |-> d, y |-> y, prefixed |-> prefixed],
   ret |-> <<>>]
DateCalls ==
  {DateCall(form, m, d, y, prefixed) :
     form \in DateForms, m \in ShortNumbers, d \in ShortNumbers, y \in Years,
     prefixed \in BOOLEAN}

\* the next application: of the argument, then of the string returned last
FormatDate ==
  /\ fn.f = "date"
  /\ Len(fn.ret) < MaxApply
  /\ fn.ret # <<>> => fn.ret[Len(fn.ret)].t = "str"
  /\ fn' = [fn EXCEPT !.ret =
              Append(fn.ret, ParseAndFormatDate(IF fn.ret = <<>> THEN fn.arg
                                                ELSE fn.ret[Len(fn.ret)].s))]
  /\ UNCHANGED <<engine, running, pc, q, qret, an, out, hist, routers>>

InitDate == InitEngine(NumEndpoints) /\ InitTasks /\ fn \in DateCalls /\ InitRouters

NextDate == FormatDate

SpecDate == InitDate /\ [][NextDate]_vars

----------------------------------------------------------------------------
(* The specification of the response parsers on their own: the parse of a  *)
(* category extractor, and that of _extract_customer_info, applied to one  *)
(* response text more than once                                            *)

\* the longest values list of a response of this specification
MaxValues == 2

\* the contents of the strings: a word, a word and a closing brace, an opening
\* brace and a word
ParseStrings == {<<"A">>, <<"a", RB>>, <<LB, "a">>}
ValueLists == UNION {[1..n -> ParseStrings] : n \in 1..MaxValues}
EvidenceLists == {<<>>, <<<<"e">>>>}
\* the confidence of a response, "" when the key is absent
Confidences == {"0.9", "0.0", "1.5", "-0.2", ""}
Layouts == {"line", "lines"}

\* a JSON list of strings, and the object of a category response, on one
\* line or with one member per line
ListOfStr(strs) == <<LS>> \o Join([i \in 1..Len(strs) |-> Str(strs[i])], CM) \o <<RS>>
CategoryObject(values, evidence, confidence, layout) ==
  LET sep == IF layout = "line" THEN <<CM, SP>> ELSE <<CM, NL, SP>>
      open == IF layout = "line" THEN <<LB>> ELSE <<LB, NL, SP>>
      close == IF layout = "line" THEN <<RB>> ELSE <<NL, RB>>
  IN open \o Field("values", ListOfStr(values)) \o sep
       \o Field("evidence", ListOfStr(evidence))
       \o (IF confidence = "" THEN <<>> ELSE sep \o Field("confidence", <<confidence>>))
       \o close

\* the first cut tokens of such an object as the response of a category
CategoryParse(values, evidence, confidence, layout, cut) ==
  [f |-> "category",
   arg |-> SubSeq(CategoryObject(values, evidence, confidence, layout), 1, cut),
   src |-> [values |-> values, evidence |-> evidence, confidence |-> confidence,
            layout |-> layout,
            whole |-> cut = Len(CategoryObject(values, evidence, confidence, layout))],
   ret |-> <<>>]
CategoryParses ==
  UNION {{CategoryParse(v, e, c, l, cut) :
            cut \in 1..Len(CategoryObject(v, e, c, l))} :
           v \in ValueLists, e \in EvidenceLists, c \in Confidences, l \in Layouts}

\* the fields of a customer response: null, a name, and the words for none
CustomerFields ==
  {PyNone, PyStr(<<"Acme">>), PyStr(<<>>), PyStr(<<"null">>), PyStr(<<"None">>),
   PyStr(<<"N/A">>), PyStr(<<"NA">>)}
FieldTokens(v) == IF v = PyNone THEN <<"null">> ELSE Str(v.s)
\* the customer response as a JSON object, or as its two fields without the
\* braces around them
CustomerParse(name, date, layout) ==
  [f |-> "customer",
   arg |-> IF layout = "object"
             THEN Obj2(Field("customer_name", FieldTokens(name)),
                       Field("meeting_date", FieldTokens(date)))
             ELSE Field("customer_name", FieldTokens(name)) \o <<CM, SP>>
                    \o Field("meeting_date", FieldTokens(date)),
   src |-> [name |-> name, date |-> date, layout |-> layout],
   ret |-> <<>>]
CustomerParses ==
  {CustomerParse(name, date, layout) :
     name \in CustomerFields, date \in CustomerFields, layout \in {"object", "fields"}}

\* a response text inside a json fence, and inside a sentence of prose
Fenced(text) == <<FENCE, "json", NL>> \o text \o <<NL, FENCE>>
WithProse(text) == <<"Here", SP, "it", SP, "is", NL>> \o text \o <<NL, "Done">>

\* a text J to parse as it stands and inside a fence: a cut of a category
\* object of one value on one line, bare or in prose
FenceParses ==
  {[f |-> "fence",
    arg |-> IF prose THEN WithProse(c.arg) ELSE c.arg,
    src |-> [values |-> c.src.values, whole |-> c.src.whole, prose |-> prose],
    ret |-> <<>>] :
     c \in {d \in CategoryParses : Len(d.src.values) = 1 /\ d.src.layout = "line"},
     prose \in BOOLEAN}

\* one more parse of the response by a category extractor
ParseCategory ==
  /\ fn.f = "category"
  /\ Len(fn.ret) < MaxApply
  /\ fn' = [fn EXCEPT !.ret =
              Append(fn.ret, ParseCategoryResponse(PyStr(fn.arg), "Product", model_endpoint))]
  /\ UNCHANGED <<engine, running, pc, q, qret, an, out, hist, routers>>

\* one more parse of the response by _extract_customer_info
ParseCustomer ==
  /\ fn.f = "customer"
  /\ Len(fn.ret) < MaxApply
  /\ fn' = [fn EXCEPT !.ret = Append(fn.ret, ParseCustomerResponse(fn.arg))]
  /\ UNCHANGED <<engine, running, pc, q, qret, an, out, hist, routers>>

\* one more parse by a category extractor: of the text J, then of J in a fence
ParseFenced ==
  /\ fn.f = "fence"
  /\ Len(fn.ret) < MaxApply
  /\ fn' = [fn EXCEPT !.ret =
              Append(fn.ret,
                     ParseCategoryResponse(PyStr(IF Len(fn.ret) % 2 = 0 THEN fn.arg
                                                 ELSE Fenced(fn.arg)),
                                           "Product", model_endpoint))]
  /\ UNCHANGED <<engine, running, pc, q, qret, an, out, hist, routers>>

\* a response is parsed by an engine that got one: from its client or its mock
InitParse ==
  /\ InitEngine(NumEndpoints)
  /\ ~(~databricks_client /\ ~use_mock)
  /\ InitTasks
  /\ fn \in CategoryParses \cup CustomerParses \cup FenceParses
  /\ InitRouters

NextParse == ParseCategory \/ ParseCustomer \/ ParseFenced

SpecParse == InitParse /\ [][NextParse]_vars

----------------------------------------------------------------------------
(* The specifications of the routers: requests to the schema store, and    *)
(* requests to the session store, one after the other                      *)

InitStores ==
  /\ InitEngine(NumEndpoints) /\ databricks_client /\ ~use_mock
  /\ InitTasks /\ fn = NoFn /\ InitRouters

TemplateIds == {"default_product_feedback", Uuid(1), Uuid(2), Uuid(3)}

NextSchema ==
  \/ \E name \in TemplateNames, categories \in RequestCategories, user_id \in UserIds :
       create_schema_template(name, categories, user_id)
  \/ \E id \in TemplateIds, name \in TemplateNames \cup {PyNone},
        categories \in {PyList(c) : c \in RequestCategories} \cup {PyNone},
        user_id \in UserIds :
       update_schema_template(id, name, categories, user_id)
  \/ \E id \in TemplateIds, user_id \in UserIds : delete_schema_template(id, user_id)

SpecSchema == InitStores /\ [][NextSchema]_vars

NextSessions ==
  \/ \E user_id \in UserIds, documents \in 0..1 : create_analysis_session(user_id, documents)
  \/ \E id \in Uuids : start_analysis_session(id)
  \/ \E id \in Uuids : delete_analysis_session(id)

SpecSessions == InitStores /\ [][NextSessions]_vars

----------------------------------------------------------------------------
(* Properties *)

\* the names of a schema's categories, the keys of a dict, in order
Names(schema) == [i \in 1..Len(schema) |-> schema[i].name]
Keys(d) == [i \in 1..Len(d) |-> d[i].key]
UniqueNames(schema) ==
  \A i, j \in 1..Len(schema) : schema[i].name = schema[j].name => i = j

\* analyze_text has returned its QuickAnalysisResult
Returned(t) == pc[t] = "done" /\ out[t].kind = "returned"

\* C1: when the names of the schema's categories are unique, the categories
\* of the result analyze_text returns have exactly one entry per category of
\* the schema, keyed by the category's name, in the order of the schema
C1_OneEntryPerCategory ==
  \A t \in Tasks :
    Returned(t) /\ UniqueNames(an[t].schema) =>
      /\ Keys(out[t].categories) = Names(an[t].schema)
      /\ \A i \in 1..Len(out[t].categories) :
           out[t].categories[i].val.category_name = an[t].schema[i].name

\* a result for two categories, the first extracted and the second failed
C1_Witness ==
  \E t \in Tasks :
    /\ Returned(t) /\ UniqueNames(an[t].schema)
    /\ Len(an[t].schema) = 2 /\ Len(out[t].categories) = 2
    /\ out[t].categories[1].val.values # <<>>
    /\ out[t].categories[2].val.error # PyNone

\* C2: analyze_text never raises: whatever the endpoints answer, well-formed
\* JSON with fields of unexpected types included, the call ends by returning
\* its result
C2_NeverRaises ==
  \A t \in Tasks : pc[t] = "done" => out[t].kind = "returned"

\* C3: _query_databricks_model never raises on a timeout, a rate limit, an
\* upstream or not-found error, or any other exception of an endpoint, and a
\* query that made calls and got no content from any of them returns None
C3_QueryNeverRaises ==
  \A t \in Tasks :
    /\ pc[t] # "q_raised"
    /\ out[t].kind # "raised"
    /\ pc[t] = "q_done" /\ log[t].calls > 0 /\ log[t].last # "content" =>
         qret[t] = PyNone /\ qsrc[t] = "none"

\* a query that slept on a rate limit, tried every endpoint, ended on a
\* timeout of the last one and returned None
C3_Witness ==
  \E t \in Tasks :
    /\ pc[t] = "q_done" /\ qret[t] = PyNone
    /\ Len(log[t].tried) = NumGatewayEndpoints
    /\ log[t].sleeps > 0 /\ log[t].last = "timeout"

\* C4: with three endpoints or more and queries one after the other, a query
\* whose first two endpoints answer every attempt with a rate-limit error and
\* whose third endpoint answers with content returns that content and has the
\* third endpoint at the front of the list; the next query, with another
\* prompt, calls that endpoint first
C4_Failover ==
  \A t \in Tasks :
    /\ pc[t] = "q_done" /\ FailedOver(log[t], qsrc[t]) =>
         /\ qret[t] = PyStr(log[t].content)
         /\ q[t].endpoint = snap[t].endpoints[3]
         /\ log[t].tried = SubSeq(snap[t].endpoints, 1, 3)
         /\ available_endpoints[1] = snap[t].endpoints[3]
    /\ out[t].failover /\ log[t].tried # <<>> => log[t].tried[1] = out[t].endpoint

\* the query after the failover has made its first call, on the third endpoint
C4_Witness ==
  \E t \in Tasks :
    /\ out[t].failover /\ log[t].calls = 1
    /\ log[t].tried = <<AllEndpoints[3]>>

\* C5: a query whose (prompt, max_tokens) pair is in the cache returns the
\* stored content, calls no endpoint, and leaves the endpoint order and the
\* failure counter as they were
C5_CacheHit ==
  \A t \in Tasks :
    pc[t] = "q_done" /\ snap[t].hit =>
      /\ qsrc[t] = "cache"
      /\ qret[t] = PyStr(CacheGet(resident, [p |-> q[t].prompt, m |-> q[t].max_tokens]))
      /\ log[t].calls = 0
      /\ available_endpoints = snap[t].endpoints
      /\ consecutive_failures = snap[t].failures

\* a hit on the older of two stored pairs, with failures counted since
C5_Witness ==
  \E t \in Tasks :
    /\ pc[t] = "q_done" /\ snap[t].hit /\ qsrc[t] = "cache"
    /\ Len(resident) = 2
    /\ resident[1].key = [p |-> q[t].prompt, m |-> q[t].max_tokens]
    /\ consecutive_failures > 0

\* the category at index i of the schema has its result: its loop is over
Settled(t, i) == i < an[t].i \/ pc[t] = "done"

\* C6: each category gets at most two query-and-parse cycles; the second runs
\* if and only if the first gave empty values (a list of one empty string
\* counts as empty), and only after the pause of one second
C6_RetryOnce ==
  \A t \in Tasks : \A i \in 1..Len(an[t].cycles) :
    LET c == an[t].cycles[i]
    IN /\ c.n <= 2
       /\ c.paused \in {0, 1}
       /\ c.n = 2 => c.paused = 1
       /\ Settled(t, i) =>
            /\ c.n >= 1
            /\ c.n = 2 <=> c.first_empty
            /\ c.paused = 1 <=> c.n = 2
            /\ c.first \in {PyNone, PyStr(ReplyProse), PyStr(ReplyNoValues),
                            PyStr(ReplyEmptyString)} => c.n = 2
            /\ c.first \in {PyStr(ReplyA), PyStr(ReplyX)} /\ databricks_client => c.n = 1

\* a call whose first category was retried after a reply of one empty string
\* and whose second category was not retried
C6_Witness ==
  \E t \in Tasks :
    /\ Returned(t) /\ Len(an[t].cycles) = 2
    /\ an[t].cycles[1].first = PyStr(ReplyEmptyString)
    /\ an[t].cycles[1].n = 2 /\ an[t].cycles[1].paused = 1
    /\ an[t].cycles[2].n = 1 /\ an[t].cycles[2].paused = 0

\* C7, as the spec states it: no CategoryResult analyze_text returns has
\* empty values without confidence 0.0, model_used "none" and an error
C7_EmptyHasError ==
  \A t \in Tasks : \A i \in 1..Len(an[t].categories) :
    LET r == an[t].categories[i].val
    IN r.values = <<>> =>
         /\ r.confidence = 0
         /\ r.model_used = "none"
         /\ r.error.t = "str" /\ r.error.s # <<>>

\* the last query of a category gave no response, or one that is no JSON
\* object a CategoryResult can be made of
NoExtraction(response) ==
  \/ ~Truthy(response)
  \/ response.s \in {ReplyProse, ReplyBlank, ReplyValuesNotList}

\* C7, amended: a category whose last cycle got no response, or a response
\* that could not be parsed, has empty values, confidence 0.0, model_used
\* "none" and a non-empty error; a result with empty values and no error comes
\* only from a parsed response whose values list is empty or holds one empty
\* string, and carries the configured endpoint as model_used
C7_FailureHasError ==
  \A t \in Tasks :
    UniqueNames(an[t].schema) =>
      \A i \in 1..Len(an[t].categories) :
        LET r == an[t].categories[i].val
            response == an[t].cycles[i].response
        IN /\ NoExtraction(response) =>
                /\ r.values = <<>>
                /\ r.confidence = 0
                /\ r.model_used = "none"
                /\ r.error.t = "str" /\ r.error.s # <<>>
           /\ r.values = <<>> /\ r.error = PyNone =>
                /\ response \in {PyStr(ReplyNoValues), PyStr(ReplyEmptyString),
                                 PyStr(MockCustomer)}
                /\ r.model_used = model_endpoint
                /\ an[t].cycles[i].n = 2

\* a result with one category failed after the retry and one category whose
\* model answered twice with an empty list
C7_Witness ==
  \E t \in Tasks :
    /\ Returned(t) /\ UniqueNames(an[t].schema) /\ Len(out[t].categories) = 2
    /\ an[t].cycles[1].response = PyNone /\ an[t].cycles[1].n = 2
    /\ out[t].categories[1].val.error # PyNone
    /\ an[t].cycles[2].response = PyStr(ReplyNoValues)
    /\ out[t].categories[2].val.values = <<>>
    /\ out[t].categories[2].val.error = PyNone

\* C8: when every query of a call returns None, analyze_text still returns
\* its result, with an entry per category, each with empty values, confidence
\* 0.0, model_used "none" and an error
C8_TotalUnavailability ==
  \A t \in Tasks :
    pc[t] = "done" /\ an[t].all_none =>
      /\ out[t].kind = "returned"
      /\ Len(out[t].categories) = Cardinality({an[t].schema[i].name : i \in 1..Len(an[t].schema)})
      /\ \A i \in 1..Len(out[t].categories) :
           LET r == out[t].categories[i].val
           IN /\ r.values = <<>>
              /\ r.confidence = 0
              /\ r.model_used = "none"
              /\ r.error.t = "str" /\ r.error.s # <<>>

\* every endpoint failed on every query of a call with the customer query
\* and two categories
C8_Witness ==
  \E t \in Tasks :
    /\ Returned(t) /\ an[t].all_none
    /\ databricks_client /\ ~use_mock /\ consecutive_failures > 0
    /\ an[t].extract_customer_info /\ Len(out[t].categories) = 2
    /\ \A i \in 1..2 : an[t].cycles[i].n = 2

\* the values of the replies that hold some
ReplyValues(response) ==
  IF response = PyStr(ReplyA) THEN <<<<"A">>>>
  ELSE IF response = PyStr(ReplyX) THEN <<<<"X">>>>
  ELSE <<>>

\* C9: a query that fails on every endpoint, or a response that cannot be
\* parsed, for one category or for the customer and date pair leaves the
\* result of every other category as its own response makes it: a category
\* whose response parses with values has exactly those values
C9_FailureLocality ==
  \A t \in Tasks :
    Returned(t) /\ UniqueNames(an[t].schema) =>
      /\ Len(an[t].cycles) = Len(an[t].schema)
      /\ Len(out[t].categories) = Len(an[t].schema)
      /\ \A i \in 1..Len(out[t].categories) :
           /\ ReplyValues(an[t].cycles[i].response) # <<>>
           /\ \/ an[t].extract_customer_info /\ NoExtraction(an[t].customer_response)
              \/ \E j \in 1..Len(an[t].cycles) : j # i /\ NoExtraction(an[t].cycles[j].response)
           => /\ out[t].categories[i].key = an[t].schema[i].name
              /\ out[t].categories[i].val.values = ReplyValues(an[t].cycles[i].response)
              /\ out[t].categories[i].val.error = PyNone

\* the customer query and the second category failed, the first category
\* has the values of its reply
C9_Witness ==
  \E t \in Tasks :
    /\ Returned(t) /\ Len(an[t].schema) = 2
    /\ an[t].extract_customer_info /\ an[t].customer_response = PyNone
    /\ an[t].cycles[1].response = PyStr(ReplyA)
    /\ out[t].categories[1].val.values = <<<<"A">>>>
    /\ an[t].cycles[2].response = PyNone
    /\ out[t].categories[2].val.error # PyNone

\* C10: every value of the result of a PREDEFINED category is one of the
\* category's possible_values
C10_PredefinedMembership ==
  \A t \in Tasks :
    Returned(t) /\ UniqueNames(an[t].schema) =>
      \A i \in 1..Len(out[t].categories) :
        an[t].schema[i].value_type = "predefined"
          /\ out[t].categories[i].val.error = PyNone =>
          \A k \in 1..Len(out[t].categories[i].val.values) :
            \E o \in 1..Len(an[t].schema[i].possible_values) :
              out[t].categories[i].val.values[k] = an[t].schema[i].possible_values[o]

\* C16: the cache never holds more than cache_max_size entries (50 in the
\* program); a query that stores a new key in a full cache drops exactly the
\* entry stored earliest, one that stores a new key in a cache with room
\* drops none, and a hit leaves the cache and its order as they were
C16_CacheFifo ==
  /\ Len(cache) <= cache_max_size
  /\ \A t \in Tasks :
       pc[t] = "q_done" =>
         LET key == CacheKey(q[t].prompt, q[t].max_tokens)
             old == snap[t].cache
             entry == [key |-> key, val |-> log[t].content]
             new == qsrc[t] = "endpoint" /\ ~CacheHas(old, key)
         IN /\ qsrc[t] \in {"cache", "none", "mock"} => cache = old
            /\ new /\ Len(old) = cache_max_size => cache = Tail(old) \o <<entry>>
            /\ new /\ Len(old) < cache_max_size => cache = old \o <<entry>>

\* a query stored a new key in a full cache, and the entry that was the
\* oldest is gone
C16_Witness ==
  \E t \in Tasks :
    /\ pc[t] = "q_done" /\ qsrc[t] = "endpoint"
    /\ Len(snap[t].cache) = cache_max_size
    /\ ~CacheHas(snap[t].cache, CacheKey(q[t].prompt, q[t].max_tokens))
    /\ cache[Len(cache)].key = CacheKey(q[t].prompt, q[t].max_tokens)
    /\ ~CacheHas(cache, snap[t].cache[1].key)

\* C18: the model_used of a result without error is the endpoint whose reply
\* the category's last query returned
C18_ModelUsedServes ==
  \A t \in Tasks :
    UniqueNames(an[t].schema) =>
      \A i \in 1..Len(an[t].categories) :
        LET r == an[t].categories[i].val
        IN r.error = PyNone /\ an[t].cycles[i].served # "" =>
             r.model_used = an[t].cycles[i].served

\* the identifiers _process_category_fallback gives its results
FallbackIdentifiers == {"keyword_fallback", "pattern_fallback"}

\* C19: a call with fast_mode = True queries the model for no category, and
\* every CategoryResult it returns has a fallback identifier as model_used
C19_FastModeNoQuery ==
  \A t \in Tasks :
    an[t].fast_mode =>
      /\ \A i \in 1..Len(an[t].cycles) : an[t].cycles[i].n = 0
      /\ an[t].stage = "category" => pc[t] \notin {"q_enter", "q_wait", "q_sleep", "q_done"}
      /\ \A i \in 1..Len(an[t].categories) :
           an[t].categories[i].val.model_used \in FallbackIdentifiers

\* C20: with USE_MOCK_LLM set, a query returns the fixed response of its
\* prompt, calls no endpoint, and leaves the cache, the endpoint order, the
\* failure counter and llm_available as they were
C20_MockGateway ==
  \A t \in Tasks :
    use_mock /\ pc[t] = "q_done" =>
      /\ qsrc[t] = "mock"
      /\ qret[t] = PyStr(IF q[t].prompt.customer_word THEN MockCustomer
                         ELSE IF q[t].prompt.kind = "predefined" THEN MockPredefined
                         ELSE MockInferred)
      /\ log[t].calls = 0
      /\ cache = snap[t].cache
      /\ available_endpoints = snap[t].endpoints
      /\ consecutive_failures = snap[t].failures
      /\ llm_available = snap[t].llm_available

\* a second mock query, of the prompt with the word customer, on an engine
\* whose client is there
C20_Witness ==
  \E t \in Tasks :
    /\ use_mock /\ databricks_client /\ pc[t] = "q_done"
    /\ q[t].prompt.customer_word /\ qret[t] = PyStr(MockCustomer)
    /\ out[t].kind = "returned"

\* the month or day of two digits, written without zfill
TwoDigits(n) == IF Len(n) = 1 THEN <<"0">> \o n ELSE n

\* C15: _parse_and_format_date returns, for a string of the form M/D/YYYY,
\* M-D-YYYY, YYYY/M/D or YYYY-M-D, the string YYYY-MM-DD with month and day
\* padded to two digits, and returns that string again when applied to it
C15_DateCanonical ==
  fn.f = "date" /\ ~fn.src.prefixed =>
    \A k \in 1..Len(fn.ret) :
      fn.ret[k] = PyStr(fn.src.y \o <<"-">> \o TwoDigits(fn.src.m) \o <<"-">>
                          \o TwoDigits(fn.src.d))

\* 3/11/2025 gave 2025-03-11, twice
C15_Witness ==
  /\ fn.f = "date" /\ fn.arg = <<"3", "/", "1", "1", "/", "2", "0", "2", "5">>
  /\ Len(fn.ret) = 2
  /\ fn.ret[2] = PyStr(<<"2", "0", "2", "5", "-", "0", "3", "-", "1", "1">>)

\* the response of a parse is a whole object with the three keys, parsed by
\* an engine that has an endpoint name
CleanParse ==
  /\ fn.f = "category" /\ fn.src.whole /\ fn.src.confidence # ""
  /\ model_endpoint # NoEndpoint
  /\ fn.ret # <<>>

\* C11: of a response that is exactly one well-formed JSON object with the
\* keys values (a non-empty list of non-empty strings), evidence (a list of
\* strings) and confidence, category extraction returns the values, the
\* evidence and the confidence of the object, and no error
C11_CleanRoundTrip ==
  CleanParse =>
    /\ fn.ret[1].values = fn.src.values
    /\ fn.ret[1].evidence_text = fn.src.evidence
    /\ fn.ret[1].confidence = NumberValue(fn.src.confidence)
    /\ fn.ret[1].error = PyNone

\* brace_count of the category extractors never comes back to 0 on the text
Truncated(s) ==
  /\ FindFenceJson(s) = 0
  /\ Find(s, LB) # 0
  /\ BalancedEnd(s, Find(s, LB)) = 0

\* got is a list of beginnings of the first strings of orig
PrefixValues(got, orig) ==
  /\ Len(got) <= Len(orig)
  /\ \A i \in 1..Len(got) :
       Len(got[i]) <= Len(orig[i]) /\ SubSeq(orig[i], 1, Len(got[i])) = got[i]

\* C12: of a truncated response (the brace depth never returns to zero)
\* category extraction returns the values of the repaired object, which are
\* beginnings of the values that were sent, with no error, or the failure
\* CategoryResult (no values, the error set); no exception leaves it
C12_TruncationRepair ==
  fn.f = "category" /\ Truncated(fn.arg) =>
    \A k \in 1..Len(fn.ret) :
      /\ ~IsRaised(fn.ret[k])
      /\ \/ fn.ret[k] = FailureResult("Product")
         \/ /\ fn.ret[k].error = PyNone
            /\ PrefixValues(fn.ret[k].values, fn.src.values)

\* the text cut inside its first string, {"values": ["A , gave the value A
C12_Witness ==
  /\ fn.f = "category"
  /\ fn.arg = <<LB, QT, "values", QT, CL, SP, LS, QT, "A">>
  /\ fn.ret # <<>>
  /\ fn.ret[1].values = <<<<"A">>>> /\ fn.ret[1].error = PyNone

\* the words that stand for no value
Sentinels == {<<>>, <<"null">>, <<"None">>, <<"N/A">>, <<"NA">>}
Normalized(v) == IF v.t = "str" /\ v.s \in Sentinels THEN PyNone ELSE v

\* C13: the customer and date extractor returns None for a field whose value
\* is "", "null", "None", "N/A" or "NA"
C13_SentinelsAbsent ==
  fn.f = "customer" /\ fn.src.layout = "object" =>
    \A k \in 1..Len(fn.ret) :
      fn.ret[k] = <<Normalized(fn.src.name), Normalized(fn.src.date)>>

C17_ConfidenceInRange ==
  fn.f = "category" =>
    \A k \in 1..Len(fn.ret) :
      fn.ret[k].confidence >= 0 /\ fn.ret[k].confidence <= 10

\* C21: a reply with no choices, or whose first choice has empty content, is
\* not returned to the caller as the response of an endpoint and is not
\* written to the cache
C21_EmptyReplyNotReturned ==
  /\ \A t \in Tasks :
       pc[t] = "q_done" /\ qsrc[t] = "endpoint" => Truthy(qret[t])
  /\ \A i \in 1..Len(cache) : cache[i].val # <<>>

\* the endpoints of the list as it is now
ListedEndpoints == {available_endpoints[i] : i \in 1..Len(available_endpoints)}

\* C25: in every interleaving of concurrent queries, when a query returns a
\* response it got from an endpoint, that endpoint is at position 0 of the
\* endpoint list
C25_PromotedAtReturn ==
  \A t \in Tasks :
    pc[t] = "q_done" /\ qsrc[t] = "endpoint" =>
      available_endpoints[1] = q[t].endpoint

\* C26: a query that made model calls returns None only after it has
\* attempted every endpoint of the list, also when concurrent queries
\* reorder the list while it is suspended
C26_NoneAfterAllTried ==
  \A t \in Tasks :
    pc[t] = "q_done" /\ qsrc[t] = "none" /\ log[t].calls > 0 =>
      \A e \in ListedEndpoints : \E i \in 1..Len(log[t].tried) : log[t].tried[i] = e

\* a model call of task t ends in this step
CallEnds(t) == pc[t] = "q_wait" /\ log'[t].calls = log[t].calls + 1
\* the error the call that ended last raised is a rate-limit error
RateLimited(l) == l.error.type = "Exception" /\ l.error.rate_limit
\* the step is the retry of the call after the backoff sleep
RetrySame(t) == pc[t] = "q_sleep" /\ pc'[t] = "q_wait"
\* the step ends a call and starts the call on the next position of the list
MoveOn(t) == CallEnds(t) /\ pc'[t] = "q_wait"
Tried(l) == {l.tried[i] : i \in 1..Len(l.tried)}

\* a second or third attempt follows a rate-limit error of the same endpoint
RetryAfterRateLimit(t) ==
  RetrySame(t) =>
    /\ RateLimited(log[t])
    /\ q'[t].endpoint = q[t].endpoint /\ q'[t].idx = q[t].idx
    /\ q'[t].retry = q[t].retry + 1 /\ q'[t].retry <= 2

C23_LinearBackoff ==
  [][\A t \in Tasks :
       /\ CallEnds(t) /\ RateLimited(log'[t]) /\ q[t].retry < 2 =>
            pc'[t] = "q_sleep" /\ log'[t].wait = 10 * (q[t].retry + 1)
       /\ CallEnds(t) /\ RateLimited(log'[t]) /\ q[t].retry >= 2 =>
            /\ pc'[t] \in {"q_wait", "q_done"} /\ log'[t].wait = 0
            /\ log'[t].sleeps = log[t].sleeps
            /\ pc'[t] = "q_wait" => q'[t].idx = q[t].idx + 1
       /\ pc[t] = "q_sleep" /\ pc'[t] # "q_sleep" =>
            pc'[t] = "q_wait" /\ q'[t].endpoint = q[t].endpoint]_vars

\* the sleep of 20 seconds after the second rate-limit error in a row
C23_Witness ==
  pc[1] = "q_sleep" /\ q[1].retry = 1 /\ log[1].wait = 20 /\ log[1].sleeps = 2

\* the call that ended raised a timeout, or an error that is neither a
\* rate-limit error nor an upstream or not-found error
CountedError(l) ==
  \/ l.error.type = "TimeoutError"
  \/ l.error.type = "Exception" /\ ~l.error.rate_limit /\ ~l.error.upstream

\* C24: consecutive_failures is set to 0, and llm_available to true, when a
\* query returns a response it got from an endpoint; it grows by 1 on each
\* timeout and each error that is neither rate limit nor upstream or not
\* found; no other step changes it
C24_FailureCounter ==
  [][IF \E t \in Tasks : CallEnds(t) /\ log'[t].last = "content"
       THEN consecutive_failures' = 0 /\ llm_available'
     ELSE IF \E t \in Tasks : CallEnds(t) /\ CountedError(log'[t])
       THEN consecutive_failures' = consecutive_failures + 1
     ELSE consecutive_failures' = consecutive_failures]_vars

\* a query that began after failures were counted got a response, and the
\* counter is 0
C24_Witness ==
  /\ pc[1] = "q_done" /\ qsrc[1] = "endpoint"
  /\ snap[1].failures > 1
  /\ consecutive_failures = 0

C27_RetryAlwaysFromCache ==
  \A t \in Tasks :
    /\ pc[t] = "q_done" /\ an[t].stage = "category" /\ an[t].attempt = 1
    /\ an[t].cycles[an[t].i].first # PyNone
    => qsrc[t] = "cache"

\* C27: with no concurrent queries, when the first cycle of a category got a
\* response (not None) that gave empty values, the query of the retry cycle
\* makes no model call, is answered from the cache unless the mock answers
\* it, and the retry gives the CategoryResult of the first cycle
C27_RetryFromCache ==
  \A t \in Tasks :
    /\ pc[t] = "q_done" /\ an[t].stage = "category" /\ an[t].attempt = 1
    /\ an[t].cycles[an[t].i].first # PyNone
    => /\ log[t].calls = 0
       /\ qsrc[t] = (IF use_mock THEN "mock" ELSE "cache")
       /\ qret[t] = an[t].cycles[an[t].i].first
       /\ ParseCategoryResponse(qret[t], an[t].schema[an[t].i].name, model_endpoint)
            = an[t].result

\* the retry of a category whose first reply held an empty list of values
\* was answered from the cache
C27_Witness ==
  /\ pc[1] = "q_done" /\ an[1].stage = "category" /\ an[1].attempt = 1
  /\ an[1].cycles[an[1].i].first = PyStr(ReplyNoValues)
  /\ qsrc[1] = "cache"

\* C29: when the query of the customer prompt returns no response, the
\* extractor returns what the patterns find in the text, the name and the
\* date or None for each, and goes on to the categories without a model call
C29_RegexFallback ==
  [][\A t \in Tasks :
       /\ pc[t] = "q_done" /\ an[t].stage = "customer" /\ ~Truthy(qret[t])
       /\ pc'[t] # "q_done"
       => /\ pc'[t] = "cat_loop"
          /\ an'[t].customer_name = an[t].text.company
          /\ an'[t].meeting_date =
               (IF an[t].text.id = "acme"
                  THEN PyStr(<<"2", "0", "2", "4", "-", "0", "3", "-", "1", "5">>)
                  ELSE PyNone)]_vars

\* every endpoint failed on the customer query of a text that names a
\* company, and the extractor has the name and the date of the text
C29_Witness ==
  /\ an[1].stage = "category" /\ an[1].extract_customer_info
  /\ databricks_client /\ ~use_mock
  /\ an[1].customer_response = PyNone
  /\ an[1].customer_name = PyStr(<<"Acme", SP, "Corp">>)
  /\ an[1].meeting_date = PyStr(<<"2", "0", "2", "4", "-", "0", "3", "-", "1", "5">>)

\* C30: of a customer response that is not JSON and holds the field
\* "customer_name": "..." or "meeting_date": "...", the extractor returns the
\* value of the field (of a field that holds a name, not a word for none)
C30_FieldsRecovered ==
  fn.f = "customer" /\ fn.src.layout = "fields" =>
    \A k \in 1..Len(fn.ret) :
      /\ fn.src.name.t = "str" /\ fn.src.name.s \notin Sentinels =>
           fn.ret[k][1] = fn.src.name
      /\ fn.src.date.t = "str" /\ fn.src.date.s \notin Sentinels =>
           fn.ret[k][2] = fn.src.date

----------------------------------------------------------------------------
\* the canonical format of a date: YYYY-MM-DD
IsCanonicalDate(s) ==
  /\ Len(s) = 10
  /\ s[5] = "-" /\ s[8] = "-"
  /\ \A i \in {1, 2, 3, 4, 6, 7, 9, 10} : s[i] \in Digits

\* C31: every meeting_date analyze_text returns, from the model's JSON or
\* from the regex fallback, is in the canonical format of the date normalizer
C31_DatesNormalized ==
  \A t \in Tasks :
    Returned(t) /\ out[t].meeting_date.t = "str" =>
      IsCanonicalDate(out[t].meeting_date.s)

\* C32: a category extractor gives the same CategoryResult for a text J in a
\* json fence as for J alone, also when J is truncated or has prose around
\* its JSON object
C32_FenceTransparent ==
  fn.f = "fence" =>
    \A k \in 1..Len(fn.ret) : k % 2 = 0 => fn.ret[k] = fn.ret[k - 1]

InitialList ==
  IF databricks_client THEN InitialEndpoints(NumGatewayEndpoints) ELSE <<>>

\* a has the elements of b, each once
IsPermutation(a, b) ==
  /\ Len(a) = Len(b)
  /\ \A i \in 1..Len(b) : Cardinality({j \in 1..Len(a) : a[j] = b[i]}) = 1

\* C34: in every interleaving of concurrent queries the endpoint list is a
\* permutation of the list __init__ made, and a step that changes it is the
\* return of a query with an endpoint's content that changes no position but
\* the first and the one at which the query succeeded
C34_Permutation ==
  /\ [] IsPermutation(available_endpoints, InitialList)
  /\ [][available_endpoints' # available_endpoints =>
          \E t \in Tasks :
            /\ pc[t] = "q_wait" /\ pc'[t] = "q_done" /\ qsrc'[t] = "endpoint"
            /\ \A j \in 1..Len(available_endpoints) :
                 j \notin {1, q[t].idx + 1} =>
                   available_endpoints'[j] = available_endpoints[j]]_vars

\* two swaps by two concurrent queries, at the second and at the third
\* position, have left no endpoint of the list where __init__ put it
C34_Witness ==
  /\ Len(available_endpoints) = 3
  /\ \A j \in 1..3 : available_endpoints[j] # InitialList[j]
  /\ pc[2] = "q_done" /\ qsrc[2] = "endpoint" /\ q[2].idx = 2
  /\ out[1].kind = "returned"

\* C35: in every interleaving of concurrent queries, a step that changes the
\* cache is the return of a query with the content an endpoint gave it, the
\* new entry maps the key of that query's prompt and max_tokens to that
\* content, every other entry was there before, and a query that returns
\* None leaves the cache as it was
C35_CacheEntries ==
  [][/\ cache' # cache =>
          \E t \in Tasks :
            /\ pc[t] = "q_wait" /\ pc'[t] = "q_done" /\ qsrc'[t] = "endpoint"
            /\ log'[t].last = "content" /\ qret'[t] = PyStr(log'[t].content)
            /\ \A i \in 1..Len(cache') :
                 \/ cache'[i] = [key |-> [p |-> q[t].prompt, m |-> q[t].max_tokens],
                                 val |-> log'[t].content]
                 \/ \E j \in 1..Len(cache) : cache[j] = cache'[i]
            /\ \E i \in 1..Len(cache') :
                 cache'[i] = [key |-> [p |-> q[t].prompt, m |-> q[t].max_tokens],
                              val |-> log'[t].content]
     /\ \A t \in Tasks :
          pc[t] # "q_done" /\ pc'[t] = "q_done" /\ qret'[t] = PyNone => cache' = cache]_vars

\* a query has failed on every endpoint while the other query's content was
\* stored: the cache holds the other query's entry and none for this one
C35_Witness ==
  /\ pc[2] = "q_done" /\ qret[2] = PyNone /\ log[2].calls > 0
  /\ Len(cache) = 1
  /\ cache[1].key # [p |-> q[2].prompt, m |-> q[2].max_tokens]
  /\ out[1].kind = "returned"

\* C36: of two queries of one prompt and one max_tokens that overlap in time,
\* at most one makes model calls
C36_SingleFlight ==
  \A t, u \in Tasks :
    /\ t # u
    /\ q[t].prompt = q[u].prompt /\ q[t].max_tokens = q[u].max_tokens
    /\ q[t] # NoQ
    => ~(log[t].calls + (IF pc[t] = "q_wait" THEN 1 ELSE 0) > 0
         /\ log[u].calls + (IF pc[u] = "q_wait" THEN 1 ELSE 0) > 0)

\* how many of the queries of a call were for label (0 the customer query,
\* i the i-th category of the schema)
QueriesFor(queries, label) ==
  Cardinality({k \in 1..Len(queries) : queries[k] = label})

\* C40: the queries of one call of analyze_text are made one after the other:
\* a query starts when no query of the call is in flight; the customer query
\* is made if and only if extract_customer_info is true, and first; the
\* queries of category i, at most two, start after category i - 1 has its
\* result, in the order of the schema, and a call that returns has queried
\* every category
C40_Sequential ==
  /\ [](\A t \in Tasks :
          Returned(t) =>
            \A i \in 1..Len(an[t].schema) : QueriesFor(an[t].queries, i) >= 1)
  /\ [][\A t \in Tasks :
          an'[t].queries # an[t].queries =>
            LET qs == an'[t].queries
                n == Len(qs)
                label == qs[n]
            IN /\ n = Len(an[t].queries) + 1
               /\ pc[t] \in {"idle", "cat_loop", "cat_sleep"} /\ q[t] = NoQ
               /\ pc'[t] = "q_enter"
               /\ an'[t].extract_customer_info <=> qs[1] = 0
               /\ label = 0 => n = 1
               /\ label > 0 =>
                    /\ label <= Len(an'[t].schema)
                    /\ QueriesFor(qs, label) <= 2
                    /\ an[t].stage = "category"
                    /\ IF n = 1 THEN label = 1 ELSE qs[n - 1] \in {label - 1, label}
                    /\ label > 1 /\ qs[n - 1] = label - 1 =>
                         /\ an[t].cycles[label - 1].n >= 1
                         /\ Len(an[t].categories) >= 1]_vars

\* the call made its customer query, two queries for its first category and
\* two for its second, and returned
C40_Witness ==
  /\ Returned(1)
  /\ an[1].queries = <<0, 1, 1, 2, 2>>

\* the category invariant of a template: the names unique and not empty, a
\* predefined category with one value at least and no value twice, an
\* inferred category with none
CategoryInvariant(categories) ==
  /\ \A i, j \in 1..Len(categories) : i # j => categories[i].name # categories[j].name
  /\ \A i \in 1..Len(categories) :
       LET c == categories[i]
       IN /\ c.name \notin {"", " "}
          /\ c.value_type = "predefined" =>
               /\ Len(c.possible_values) >= 1
               /\ \A k, l \in 1..Len(c.possible_values) :
                    k # l => c.possible_values[k] # c.possible_values[l]
          /\ c.value_type = "inferred" => c.possible_values = <<>>

\* C37: every template of the schema store satisfies the category invariant:
\* create_schema_template and update_schema_template store no template that
\* fails validate_schema_categories
C37_StoredTemplatesValid ==
  \A id \in DOMAIN _schemas : CategoryInvariant(_schemas[id].categories)

\* C38: an update_schema_template request that is rejected (404, 403 or 400)
\* leaves the schema store as it was
C38_RejectedUpdateNoChange ==
  [][http'.op = "update_schema_template" /\ http'.code \in {400, 403, 404} =>
       _schemas' = _schemas]_vars

\* C39: a start is accepted for a session of status created only, and moves
\* it to running; a start of a session of any other status is rejected with
\* 400 and leaves the store as it was; and no step gives the status created
\* to a session but the creation of a session under a new id
C39_StartOnce ==
  [][\A id \in Uuids :
       /\ http'.op = "start_analysis_session" /\ http'.id = id /\ http'.code = 200 =>
            /\ id \in DOMAIN _sessions /\ _sessions[id].status = "created"
            /\ _sessions' = [_sessions EXCEPT ![id].status = "running"]
       /\ (/\ http'.op = "start_analysis_session" /\ http'.id = id
           /\ id \in DOMAIN _sessions /\ _sessions[id].status # "created")
            => http'.code = 400 /\ _sessions' = _sessions
       /\ id \in DOMAIN _sessions' /\ _sessions'[id].status = "created" =>
            \/ id \in DOMAIN _sessions /\ _sessions[id].status = "created"
            \/ id = Uuid(uuids + 1) /\ http'.op = "create_analysis_session"]_vars

\* the second start of a session was rejected with 400, and the session runs
C39_Witness ==
  /\ http = Http("start_analysis_session", Uuid(1), 400)
  /\ Uuid(1) \in DOMAIN _sessions /\ _sessions[Uuid(1)].status = "running"

====
